---- MODULE Spec2Model ----
(***************************************************************************)
(* A model of src/fill_excel.py: the content cache, the two definitions of *)
(* get_html (the cached, retrying one of line 162 and the plain one of     *)
(* line 455, which rebinds the module-level name), the checkpoint store,   *)
(* and main, the crawl over the static list of countries and universities. *)
(*                                                                         *)
(* Python strings are sequences of one-character strings wherever the code *)
(* formats, prefixes or encodes them; HTML documents are opaque values.    *)
(***************************************************************************)
EXTENDS Integers, Sequences, FiniteSets, TLC

VARIABLES
    \* the fetcher and the content cache
    cache, pc, call, calls,
    \* the checkpoint store
    ckptFile, ckptPrev, ckptSaved, ckptLoaded, ckptLast, ckptOps,
    \* main: the crawl
    runPhase, country_idx, univ_idx, start_country_idx, start_univ_idx,
    attempted, lastSaveWhole, stepResult, lastSnap, persisted, ckptRemoved,
    runs, resumed, interruptedAt,
    \* main: the accumulated tables and the final output
    workbookFrom, backupWrites, criticalLogged,
    \* main: the processing of one university
    uPhase, uCount, univ_id, tasks, handled, extracted_data, tables, failures,
    \* the last invocation of a list extractor
    ex,
    \* references.md and the log_reference calls under way
    refLog, refExists, logWriters, logged, logCalls, logRuns, appendMode,
    \* one cache file and the tasks that save to it and read it
    cfile, cfExists, ctasks, cgot, csaved, cops

fetchVars == <<cache, pc, call, calls>>

ckptVars == <<ckptFile, ckptPrev, ckptSaved, ckptLoaded, ckptLast, ckptOps>>

outVars == <<workbookFrom, backupWrites, criticalLogged>>

crawlVars ==
    <<outVars, runPhase, country_idx, univ_idx, start_country_idx, start_univ_idx,
      attempted, lastSaveWhole, stepResult, lastSnap, persisted, ckptRemoved,
      runs, resumed, interruptedAt>>

univVars ==
    <<uPhase, uCount, univ_id, tasks, handled, extracted_data, tables, failures>>

extVars == <<ex>>

logVars == <<refLog, refExists, logWriters, logged, logCalls, logRuns, appendMode>>

\* the files worker threads share
raceVars == <<cfile, cfExists, ctasks, cgot, csaved, cops>>

fileVars == <<logVars, raceVars>>

\* everything main and its extractors own
orchVars == <<crawlVars, univVars, extVars, fileVars>>

vars == <<fetchVars, ckptVars, orchVars>>

(***************************************************************************)
(* Bounds of the model.                                                    *)
(***************************************************************************)
\* the age of a cache file is counted in days up to MaxDays, and stays there
MaxDays == 7
\* number of calls of get_html in one behaviour
MaxCalls == 2
\* the largest university index saved in a checkpoint
MaxIndex == 10
\* number of save_checkpoint and load_checkpoint calls in one behaviour
MaxCkptOps == 2
\* number of starts of main and of log_reference calls in one behaviour of
\* the reference log
MaxLogRuns == 2
\* the most scholarships a scholarship page lists
MaxTitles == 2
\* number of save_to_cache and get_from_cache calls on the cache file in one
\* behaviour
MaxCacheOps == 3
MaxLogCalls == 3
\* number of times main is started in one behaviour
MaxRuns == 2
\* number of universities whose processing is followed task by task
MaxUniversities == 2
\* number of extractor tasks that raise in one behaviour
MaxFailures == 1
\* keywords (link loops) of one program type or research area
MaxKeywords == 2
\* fetchable links one keyword finds
MaxLinks == 3
\* scholarship items found on the scholarship pages
MaxItems == 6

(***************************************************************************)
(* Program constants.                                                      *)
(***************************************************************************)
RETRY_ATTEMPTS == 3
\* timedelta(days=7), in days
FRESH_DAYS == 7
\* every country of get_universities_data has five universities
UNIVS_PER_COUNTRY == 5
\* line 3778: (univ_idx + 1) % 5
SNAPSHOT_EVERY == 5
\* line 57
MAX_WORKERS == 2
\* line 878: limit of programs per type
PROGRAMS_PER_TYPE == 3
\* line 1619
max_labs_per_area == 2
\* lines 2696, 2700, 2704, 2823: limit of scholarships
SCHOLARSHIPS_LIMIT == 5
\* lines 911, 2125, 2711: fewer than 3 records found
ENOUGH_RECORDS == 3

None == "None"

(***************************************************************************)
(* Inputs.                                                                 *)
(***************************************************************************)
HTTPS == <<"h", "t", "t", "p", "s", ":", "/", "/">>
HTTP == <<"h", "t", "t", "p", ":", "/", "/">>

\* URLs as callers pass them: with and without a scheme
RawUrls == {<<"a">>, HTTPS \o <<"a">>}

\* the selector argument: None, or a CSS selector string
NoSelector == [isNone |-> TRUE, s |-> <<>>]

Selector(s) == [isNone |-> FALSE, s |-> s]

Selectors == {NoSelector, Selector(<<"N", "o", "n", "e">>), Selector(<<"h", "1">>)}

\* response bodies and page sources; "" is the empty document
Docs == {"", "d1"}

Statuses == {200, 403, 429, 404, 500}

\* exceptions requests.get can raise; "Other" is any exception that is not a
\* RequestException
StaticExceptions == {"Timeout", "ConnectionError", "RequestException", "Other"}

\* outcome of writing a cache file
IoOutcomes == {"ok", "open_fails", "write_fails"}

(***************************************************************************)
(* Content cache: get_cache_key, get_from_cache, save_to_cache.            *)
(***************************************************************************)
StartsWith(s, p) == Len(s) >= Len(p) /\ SubSeq(s, 1, Len(p)) = p

\* lines 176-178 of get_html
NormalizeUrl(url) ==
    IF StartsWith(url, HTTP) \/ StartsWith(url, HTTPS) THEN url ELSE HTTPS \o url

\* str() of the values an f-string formats
FormatBool(b) == IF b THEN <<"T", "r", "u", "e">> ELSE <<"F", "a", "l", "s", "e">>

FormatSelector(sel) == IF sel.isNone THEN <<"N", "o", "n", "e">> ELSE sel.s

\* Python truth value of the selector argument
Truthy(sel) == ~sel.isNone /\ sel.s # <<>>

\* hashlib.md5(...).hexdigest(): a hash assumed free of collisions on the
\* inputs of the model, tagged so that a key is not the string it was made of
md5(s) == <<"md5">> \o s

get_cache_key(url, use_selenium, selector) ==
    md5(url \o <<"_">> \o FormatBool(use_selenium) \o <<"_">> \o FormatSelector(selector))

Request(url, use_selenium, selector) ==
    [url |-> url, use_selenium |-> use_selenium, selector |-> selector]

NoRequest == Request(<<>>, FALSE, NoSelector)

\* the requests get_html can be asked for, after normalization
Requests ==
    {Request(NormalizeUrl(u), r, s) : u \in RawUrls, r \in BOOLEAN, s \in Selectors}

KeyOf(req) == get_cache_key(req.url, req.use_selenium, req.selector)

Keys == {KeyOf(req) : req \in Requests}

\* a cache file: absent, unreadable by pickle.load, or a pickled
\* {'html', 'timestamp'}. The file holds the timestamp; the model holds
\* age = datetime.now() - timestamp in whole days, which is all that line 111
\* reads of the two. req (not part of the file) remembers the request whose
\* fetch wrote it
NoFile == [file |-> "absent", html |-> None, age |-> 0, req |-> NoRequest]

CorruptFile == [file |-> "corrupt", html |-> None, age |-> 0, req |-> NoRequest]

\* line 111
CacheFreshAlways(entry) == TRUE

CacheFresh(entry) == entry.age < FRESH_DAYS

\* lines 94-119: [ret |-> html or None, raised |-> an exception left the call]
get_from_cache_raising(c, key) ==
    IF c[key].file = "absent" THEN [ret |-> None, raised |-> FALSE]
    ELSE IF c[key].file = "corrupt" THEN [ret |-> None, raised |-> TRUE]
    ELSE IF CacheFresh(c[key]) THEN [ret |-> c[key].html, raised |-> FALSE]
    ELSE [ret |-> None, raised |-> FALSE]

get_from_cache(c, key) ==
    IF c[key].file = "absent" THEN [ret |-> None, raised |-> FALSE]
    ELSE IF c[key].file = "corrupt" THEN [ret |-> None, raised |-> FALSE]
    ELSE IF CacheFresh(c[key]) THEN [ret |-> c[key].html, raised |-> FALSE]
    ELSE [ret |-> None, raised |-> FALSE]

\* lines 121-142; io is what the file system does to open(..., 'wb') and
\* pickle.dump: a failed open leaves the file, a failed dump leaves it truncated
save_to_cache(c, key, html, req, io) ==
    IF html = "" \/ html = None THEN c
    ELSE IF io = "open_fails" THEN c
    ELSE IF io = "write_fails" THEN [c EXCEPT ![key] = CorruptFile]
    ELSE [c EXCEPT ![key] = [file |-> "ok", html |-> html, age |-> 0, req |-> req]]

(***************************************************************************)
(* Checkpoint store: the file format.                                      *)
(*                                                                         *)
(* The file is a sequence of bytes. json.dump writes it in chunks: the     *)
(* braces, separators and keys (one symbol each here, whitespace left      *)
(* out), and the values, which are modelled byte by byte: a string between *)
(* quotes with " and \ escaped and, as ensure_ascii=False, a non-ASCII     *)
(* character as its UTF-8 bytes; an integer in decimal; None as null.      *)
(***************************************************************************)
NoName == [isNone |-> TRUE, s |-> <<>>]

Name(s) == [isNone |-> FALSE, s |-> s]

\* the country, index and name arguments of save_checkpoint
Countries == {<<"A", "l">>, <<"E", "ñ">>}

\* one-digit and two-digit indices
Indices == {0, 7, MaxIndex}

Names == {NoName, Name(<<"X">>), Name(<<"\"", "ñ", "\\">>)}

\* datetime.now().strftime(...): digits and punctuation, nothing to escape
Timestamp == <<"2", "0">>

Checkpoint(country, index, name) ==
    [timestamp |-> Timestamp, country |-> country,
     university_index |-> index, university |-> name]

NoCheckpoint == Checkpoint(<<>>, 0, NoName)

\* a string written between the quotes without any escaping
JsonEscapeNothing(ch) == <<ch>>

\* json's string escaping, ensure_ascii=False
JsonEscape(ch) ==
    IF ch = "\"" THEN <<"\\", "\"">>
    ELSE IF ch = "\\" THEN <<"\\", "\\">>
    ELSE <<ch>>

\* open(..., encoding='utf-8'): the bytes of a character
Utf8Encode(ch) == IF ch = "ñ" THEN <<"xC3", "xB1">> ELSE <<ch>>

RECURSIVE Utf8EncodeAll(_)
Utf8EncodeAll(s) ==
    IF s = <<>> THEN <<>> ELSE Utf8Encode(Head(s)) \o Utf8EncodeAll(Tail(s))

RECURSIVE JsonEscapeAll(_)
JsonEscapeAll(s) ==
    IF s = <<>> THEN <<>> ELSE JsonEscape(Head(s)) \o JsonEscapeAll(Tail(s))

EncodeString(s) == <<"\"">> \o Utf8EncodeAll(JsonEscapeAll(s)) \o <<"\"">>

DigitChars == <<"0", "1", "2", "3", "4", "5", "6", "7", "8", "9">>

RECURSIVE EncodeInt(_)
EncodeInt(n) ==
    IF n < 10 THEN <<DigitChars[n + 1]>>
    ELSE EncodeInt(n \div 10) \o <<DigitChars[(n % 10) + 1]>>

EncodeName(name) == IF name.isNone THEN <<"null">> ELSE EncodeString(name.s)

\* lines 328-336: the chunks json.dump(checkpoint, f, ...) writes, in order
JsonDumpChunks(ck) ==
    << <<"{">>,
       <<"timestamp:">>, EncodeString(ck.timestamp), <<",">>,
       <<"country:">>, EncodeString(ck.country), <<",">>,
       <<"university_index:">>, EncodeInt(ck.university_index), <<",">>,
       <<"university:">>, EncodeName(ck.university),
       <<"}">> >>

RECURSIVE Concat(_)
Concat(chunks) == IF chunks = <<>> THEN <<>> ELSE Head(chunks) \o Concat(Tail(chunks))

\* the file after the first k chunks were written
Written(ck, k) == Concat(SubSeq(JsonDumpChunks(ck), 1, k))

JsonDump(ck) == Written(ck, Len(JsonDumpChunks(ck)))

\* json.load, for the documents save_checkpoint writes and their prefixes:
\* each parser returns [ok, val, next], next the place after what it read
ParseFail == [ok |-> FALSE, val |-> <<>>, next |-> 0]

IsAt(b, i, sym) == i >= 1 /\ i <= Len(b) /\ b[i] = sym

\* the characters of a string, from place j (after the opening quote) to
\* the closing quote: UTF-8 decoded, escapes resolved
RECURSIVE ScanString(_, _, _)
ScanString(b, j, acc) ==
    IF j > Len(b) THEN ParseFail
    ELSE IF b[j] = "\"" THEN [ok |-> TRUE, val |-> acc, next |-> j + 1]
    ELSE IF b[j] = "\\"
    THEN IF IsAt(b, j + 1, "\"") \/ IsAt(b, j + 1, "\\")
         THEN ScanString(b, j + 2, Append(acc, b[j + 1]))
         ELSE ParseFail
    ELSE IF b[j] = "xC3"
    THEN IF IsAt(b, j + 1, "xB1") THEN ScanString(b, j + 2, Append(acc, "ñ"))
         ELSE ParseFail
    ELSE IF b[j] = "xB1" THEN ParseFail
    ELSE ScanString(b, j + 1, Append(acc, b[j]))

ParseString(b, i) == IF IsAt(b, i, "\"") THEN ScanString(b, i + 1, <<>>) ELSE ParseFail

IsDigit(ch) == \E d \in 1..10 : DigitChars[d] = ch

DigitValue(ch) == (CHOOSE d \in 1..10 : DigitChars[d] = ch) - 1

RECURSIVE ScanInt(_, _, _)
ScanInt(b, j, acc) ==
    IF j <= Len(b) /\ IsDigit(b[j]) THEN ScanInt(b, j + 1, acc * 10 + DigitValue(b[j]))
    ELSE [ok |-> TRUE, val |-> acc, next |-> j]

ParseInt(b, i) ==
    IF i <= Len(b) /\ IsDigit(b[i]) THEN ScanInt(b, i, 0) ELSE ParseFail

ParseName(b, i) ==
    IF IsAt(b, i, "null") THEN [ok |-> TRUE, val |-> NoName, next |-> i + 1]
    ELSE LET r == ParseString(b, i)
         IN IF r.ok THEN [ok |-> TRUE, val |-> Name(r.val), next |-> r.next] ELSE ParseFail

\* [ok |-> the bytes are a whole document, ck |-> the dictionary read]
JsonLoad(b) ==
    LET bad == [ok |-> FALSE, ck |-> NoCheckpoint]
        t == ParseString(b, 3)
        c == ParseString(b, t.next + 2)
        n == ParseInt(b, c.next + 2)
        u == ParseName(b, n.next + 2)
    IN IF ~(IsAt(b, 1, "{") /\ IsAt(b, 2, "timestamp:") /\ t.ok) THEN bad
       ELSE IF ~(IsAt(b, t.next, ",") /\ IsAt(b, t.next + 1, "country:") /\ c.ok) THEN bad
       ELSE IF ~(IsAt(b, c.next, ",") /\ IsAt(b, c.next + 1, "university_index:") /\ n.ok)
       THEN bad
       ELSE IF ~(IsAt(b, n.next, ",") /\ IsAt(b, n.next + 1, "university:") /\ u.ok) THEN bad
       ELSE IF ~(IsAt(b, u.next, "}") /\ u.next = Len(b)) THEN bad
       ELSE [ok |-> TRUE,
             ck |-> [timestamp |-> t.val, country |-> c.val,
                     university_index |-> n.val, university |-> u.val]]

\* checkpoint.json: absent, or its bytes
NoCkptFile == [exists |-> FALSE, bytes |-> <<>>]

CkptFile(b) == [exists |-> TRUE, bytes |-> b]

\* lines 342-359: [found |-> a dictionary is returned, ck |-> the dictionary]
load_checkpoint(f) ==
    IF ~f.exists THEN [found |-> FALSE, ck |-> NoCheckpoint]
    ELSE LET r == JsonLoad(f.bytes)
         IN IF r.ok THEN [found |-> TRUE, ck |-> r.ck]
            ELSE [found |-> FALSE, ck |-> NoCheckpoint]

\* the arguments of the last save_checkpoint, and whether it wrote the whole
\* document
NoSave == [made |-> FALSE, ck |-> NoCheckpoint, whole |-> FALSE]

(***************************************************************************)
(* State of one call of get_html.                                          *)
(*   def       which definition runs: "162" (the decorated function of     *)
(*             lines 156-292) or "455" (lines 455-502)                     *)
(*   byName    the call was made through the module-level name get_html    *)
(*   attempt   number of the attempt under way (tenacity counts from 1)    *)
(*   http, render, launched, quit, sleeps, backoffs                        *)
(*             HTTP requests issued, rendering branches entered, browsers  *)
(*             started and quit, jitter sleeps and backoff sleeps so far   *)
(*   hit       the result came from the cache                              *)
(*   nested    the rendering call of line 225 is under way                 *)
(*   lastStatus, lastExc   the status code (0: none) and the exception     *)
(*             ("none": none) of the last attempt                          *)
(*   hitFrom   the request whose fetch had written the file that was hit   *)
(*   disk      the cache file of this request when the call started:       *)
(*             "absent", "corrupt", "fresh" or "expired"                   *)
(*   stored    what the cache held, fresh, for this request when the call  *)
(*             started (None: nothing)                                     *)
(*   waitTimeout   a wait of the rendering branch timed out in this call   *)
(*   result, raised   what the call returned, or the exception it raised   *)
(***************************************************************************)
NoCall ==
    [def |-> "none", byName |-> FALSE, req |-> NoRequest, force |-> FALSE,
     attempt |-> 0, http |-> 0, render |-> 0, launched |-> 0, quit |-> 0,
     sleeps |-> 0, backoffs |-> 0, hit |-> FALSE, nested |-> FALSE,
     lastStatus |-> 0, lastExc |-> "none", hitFrom |-> NoRequest,
     disk |-> "absent", stored |-> None, waitTimeout |-> FALSE,
     result |-> None, raised |-> "none"]

\* the request the running definition works on: line 225 asks for the same
\* URL and selector with use_selenium=True
CurReq(c) == IF c.nested THEN [c.req EXCEPT !.use_selenium = TRUE] ELSE c.req

\* the definition the module-level name get_html is bound to once the module
\* is loaded: the def statement of line 455 runs after the one of line 162
get_html_binding == "455"

\* the fresh document the cache holds for exactly this request
StoredFor(c, req) ==
    LET e == c[KeyOf(req)]
    IN IF e.file = "ok" /\ e.req = req /\ e.age < FRESH_DAYS
       THEN e.html ELSE None

\* the cache file of a request, as a call finds it
DiskState(c, req) ==
    LET e == c[KeyOf(req)]
    IN IF e.file = "ok" THEN (IF e.age < FRESH_DAYS THEN "fresh" ELSE "expired")
       ELSE e.file

Init ==
    /\ cache = [k \in Keys |-> NoFile]
    /\ pc = "idle"
    /\ call = NoCall
    /\ calls = 0
    /\ ckptFile = NoCkptFile
    /\ ckptPrev = NoCkptFile
    /\ ckptSaved = NoSave
    /\ ckptLoaded = [found |-> FALSE, ck |-> NoCheckpoint]
    /\ ckptLast = "none"
    /\ ckptOps = 0
    /\ runPhase = "stopped"
    /\ country_idx = 0
    /\ univ_idx = 0
    /\ start_country_idx = 0
    /\ start_univ_idx = 0
    /\ attempted = <<>>
    /\ lastSaveWhole = FALSE
    /\ stepResult = "none"
    /\ lastSnap = FALSE
    /\ persisted = "none"
    /\ ckptRemoved = FALSE
    /\ runs = 0
    /\ resumed = FALSE
    /\ interruptedAt = 0
    /\ workbookFrom = -1
    /\ backupWrites = 0
    /\ criticalLogged = FALSE
    /\ uPhase = "next"
    /\ uCount = 0
    /\ univ_id = "None"
    /\ tasks = {}
    /\ handled = {}
    /\ extracted_data = [key \in {"programs", "labs", "scholarships", "admission", "cost", "outcome"} |->
                             [kind |-> "None", Univ_ID |-> "None"]]
    /\ failures = 0
    /\ ex = [kind |-> "none"]
    /\ refLog = <<>>
    /\ refExists = FALSE
    /\ logWriters = [t \in {1, 2} |-> [st |-> "idle", line |-> <<>>, pos |-> 0]]
    /\ logged = {}
    /\ logCalls = 0
    /\ logRuns = 0
    /\ appendMode = "none"
    /\ cfile = <<>>
    /\ cfExists = FALSE
    /\ ctasks = [t \in {1, 2} |-> [st |-> "idle", rest |-> <<>>, off |-> 0, got |-> <<>>]]
    /\ cgot = [done |-> FALSE, hit |-> FALSE, html |-> <<>>]
    /\ csaved = {}
    /\ cops = 0
    /\ tables = [name \in {"universities_df", "programs_df", "labs_df", "scholarships_df",
                            "admissions_df", "costs_df", "outcomes_df"} |-> <<>>]

\* a day passes: every cache file is a day older
Tick ==
    /\ \E k \in Keys : cache[k].file = "ok" /\ cache[k].age < MaxDays
    /\ cache' = [k \in Keys |->
                   IF cache[k].file = "ok" /\ cache[k].age < MaxDays
                   THEN [cache[k] EXCEPT !.age = @ + 1] ELSE cache[k]]
    /\ UNCHANGED <<pc, call, calls>>
    /\ UNCHANGED ckptVars
    /\ UNCHANGED orchVars

(***************************************************************************)
(* get_html of lines 156-292.                                              *)
(***************************************************************************)
\* lines 176-192, run at the start of every attempt: the cache lookup, then
\* the jitter sleep; c is the call record of the attempt that starts
Body162(c) ==
    LET got == IF c.force THEN [ret |-> None, raised |-> FALSE]
               ELSE get_from_cache(cache, KeyOf(CurReq(c)))
    IN IF got.raised
       THEN /\ pc' = "done"
            /\ call' = [c EXCEPT !.raised = "CacheError"]
       ELSE IF got.ret # None /\ got.ret # ""
       THEN /\ pc' = "done"
            /\ call' = [c EXCEPT !.hit = TRUE, !.result = got.ret,
                                  !.hitFrom = cache[KeyOf(CurReq(c))].req]
       ELSE /\ pc' = IF CurReq(c).use_selenium THEN "render162" ELSE "static162"
            /\ call' = [c EXCEPT !.sleeps = @ + 1]

\* a call of the function defined at line 162
Call162(url, use_selenium, selector, force_refresh) ==
    /\ pc \in {"idle", "done"}
    /\ calls < MaxCalls
    /\ calls' = calls + 1
    /\ LET req == Request(NormalizeUrl(url), use_selenium, selector)
       IN Body162([NoCall EXCEPT !.def = "162", !.req = req,
                                 !.force = force_refresh, !.attempt = 1,
                                 !.disk = DiskState(cache, req),
                                 !.stored = StoredFor(cache, req)])
    /\ UNCHANGED cache
    /\ UNCHANGED ckptVars
    /\ UNCHANGED orchVars

\* a status of 500 and above handled like a blocking response
StatusAction162_5xxEscalates(code) ==
    IF code = 200 THEN "return_html"
    ELSE IF code = 403 \/ code = 429 \/ code >= 500 THEN "escalate"
    ELSE "return_none"

\* lines 216-228: what the static branch does with a status code
StatusAction162(code) ==
    IF code = 200 THEN "return_html"
    ELSE IF code = 403 \/ code = 429 THEN "escalate"
    ELSE "return_none"

\* a decorator that retries on every exception
RetryOnAnyException(exc) == TRUE

\* line 157: the exceptions tenacity retries on (ConnectionError and Timeout
\* are RequestExceptions)
RetryOn(exc) == exc \in {"ConnectionError", "Timeout", "RequestException"}

\* lines 208-228: requests.get returned a response
Static162Response(code, body, io) ==
    /\ pc = "static162"
    /\ LET c == [call EXCEPT !.http = @ + 1, !.lastStatus = code, !.lastExc = "none"]
           act == StatusAction162(code)
       IN CASE act = "return_html" ->
                 /\ cache' = save_to_cache(cache, KeyOf(CurReq(c)), body, CurReq(c), io)
                 /\ call' = [c EXCEPT !.result = body]
                 /\ pc' = "done"
            [] act = "escalate" ->
                 \* line 225: get_html(url, use_selenium=True, ...), looked up
                 \* by name when the call is made
                 /\ cache' = cache
                 /\ IF get_html_binding = "455"
                    THEN /\ call' = [c EXCEPT !.nested = TRUE, !.sleeps = @ + 1]
                         /\ pc' = "render455"
                    ELSE Body162([c EXCEPT !.nested = TRUE])
            [] OTHER ->
                 /\ cache' = cache
                 /\ call' = [c EXCEPT !.result = None]
                 /\ pc' = "done"
    /\ UNCHANGED calls
    /\ UNCHANGED ckptVars
    /\ UNCHANGED orchVars

\* lines 288-290 and the decorator of lines 156-161: the exception is logged
\* and re-raised; tenacity sleeps and runs the function again, raises
\* RetryError after the last attempt, and lets any other exception through
Raise162(c, exc) ==
    IF ~RetryOn(exc)
    THEN /\ pc' = "done"
         /\ call' = [c EXCEPT !.raised = exc]
    ELSE IF c.attempt >= RETRY_ATTEMPTS
    THEN /\ pc' = "done"
         /\ call' = [c EXCEPT !.raised = "RetryError"]
    ELSE Body162([c EXCEPT !.attempt = @ + 1, !.backoffs = @ + 1])

\* requests.get raised
Static162Exception(exc) ==
    /\ pc = "static162"
    /\ Raise162([call EXCEPT !.http = @ + 1, !.lastStatus = 0, !.lastExc = exc], exc)
    /\ UNCHANGED <<cache, calls>>
    /\ UNCHANGED ckptVars
    /\ UNCHANGED orchVars

\* outcomes of the rendering branch: starting Chrome (through
\* ChromeDriverManager, else through the default Service), then the page
BrowserStarts == {"ok", "fallback_ok", "fail"}

PageOutcomes == {"loaded", "selector_timeout", "ready_timeout", "webdriver_exc", "other_exc"}

\* a selector wait can time out only if a selector is waited for (line 261),
\* the readyState wait only if none is
PagePossible(selector, page) ==
    /\ page = "selector_timeout" => Truthy(selector)
    /\ page = "ready_timeout" => ~Truthy(selector)

\* lines 242-287: TimeoutException is a WebDriverException, so the timeout of
\* the readyState wait (line 270, not in a try of its own) ends in line 282
RenderAction162(start, page) ==
    IF start = "fail" THEN "raise_webdriver"
    ELSE IF page \in {"loaded", "selector_timeout"} THEN "return_html"
    ELSE IF page \in {"ready_timeout", "webdriver_exc"} THEN "return_none"
    ELSE "raise_other"

\* a browser that is quit only when the page source was returned
driver_quit_on_return(started, act) ==
    IF started /\ act = "return_html" THEN 1 ELSE 0

\* lines 285-287: finally: if 'driver' in locals(): driver.quit(), the number
\* of browsers quit on the way out of the rendering branch
driver_quit_162(started, act) == IF started THEN 1 ELSE 0

\* lines 498-499: finally: driver.quit(), in the try that follows
\* webdriver.Chrome(options=options)
driver_quit_455(started, act) == IF started THEN 1 ELSE 0

\* a wait that timed out: WebDriverWait raised TimeoutException at line 262
\* or 270 (line 489 in the definition of line 455)
WaitTimedOut(start, page) ==
    start # "fail" /\ page \in {"selector_timeout", "ready_timeout"}

\* lines 229-287: the rendering branch; the finally clause quits the browser
Render162(start, page, body, io) ==
    /\ pc = "render162"
    /\ PagePossible(CurReq(call).selector, page)
    /\ LET n == IF start = "fail" THEN 0 ELSE 1
           act == RenderAction162(start, page)
           c == [call EXCEPT !.render = @ + 1, !.launched = @ + n,
                             !.quit = @ + driver_quit_162(start # "fail", act),
                             !.waitTimeout = WaitTimedOut(start, page),
                             !.lastExc = IF act = "raise_webdriver" THEN "WebDriverException"
                                         ELSE IF act = "raise_other" THEN "Other"
                                         ELSE "none"]
       IN CASE act = "return_html" ->
                 /\ cache' = save_to_cache(cache, KeyOf(CurReq(c)), body, CurReq(c), io)
                 /\ call' = [c EXCEPT !.result = body]
                 /\ pc' = "done"
            [] act = "return_none" ->
                 /\ cache' = cache
                 /\ call' = [c EXCEPT !.result = None]
                 /\ pc' = "done"
            [] act = "raise_webdriver" ->
                 /\ cache' = cache
                 /\ Raise162(c, "WebDriverException")
            [] OTHER ->
                 /\ cache' = cache
                 /\ Raise162(c, "Other")
    /\ UNCHANGED calls
    /\ UNCHANGED ckptVars
    /\ UNCHANGED orchVars

(***************************************************************************)
(* get_html of lines 455-502.                                              *)
(***************************************************************************)
HasScheme(url) == StartsWith(url, HTTP) \/ StartsWith(url, HTTPS)

\* lines 457-461: no normalization, no cache; the jitter sleep, then the branch
Body455(c) ==
    /\ pc' = IF c.req.use_selenium THEN "render455" ELSE "static455"
    /\ call' = [c EXCEPT !.sleeps = @ + 1]

\* a call through the module-level name get_html, as every extractor makes it
CallByName(url, use_selenium, selector) ==
    /\ pc \in {"idle", "done"}
    /\ calls < MaxCalls
    /\ calls' = calls + 1
    /\ LET norm == Request(NormalizeUrl(url), use_selenium, selector)
           c == [NoCall EXCEPT !.byName = TRUE, !.attempt = 1,
                               !.disk = DiskState(cache, norm),
                               !.stored = StoredFor(cache, norm)]
       IN IF get_html_binding = "455"
          THEN Body455([c EXCEPT !.def = "455",
                                 !.req = Request(url, use_selenium, selector)])
          ELSE Body162([c EXCEPT !.def = "162", !.req = norm])
    /\ UNCHANGED cache
    /\ UNCHANGED ckptVars
    /\ UNCHANGED orchVars

\* lines 466-470
StatusAction455(code) == IF code = 200 THEN "return_html" ELSE "return_none"

\* lines 465-470: requests.get returned a response (it raises MissingSchema
\* for a URL without a scheme)
Static455Response(code, body) ==
    /\ pc = "static455"
    /\ HasScheme(call.req.url)
    /\ LET c == [call EXCEPT !.http = @ + 1, !.lastStatus = code, !.lastExc = "none"]
       IN call' = [c EXCEPT !.result =
                      IF StatusAction455(code) = "return_html" THEN body ELSE None]
    /\ pc' = "done"
    /\ UNCHANGED <<cache, calls>>
    /\ UNCHANGED ckptVars
    /\ UNCHANGED orchVars

\* lines 500-502: every exception is logged and None returned; for a URL
\* without a scheme requests.get raises MissingSchema, a RequestException,
\* and sends nothing
Static455Exception(exc) ==
    /\ pc = "static455"
    /\ ~HasScheme(call.req.url) => exc = "RequestException"
    /\ call' = [call EXCEPT !.http = IF HasScheme(call.req.url) THEN @ + 1 ELSE @,
                            !.lastStatus = 0, !.lastExc = exc, !.result = None]
    /\ pc' = "done"
    /\ UNCHANGED <<cache, calls>>
    /\ UNCHANGED ckptVars
    /\ UNCHANGED orchVars

\* lines 479-499
RenderAction455(start, page) ==
    IF start = "fail" THEN "return_none"
    ELSE IF page \in {"loaded", "selector_timeout"} THEN "return_html"
    ELSE "return_none"

\* lines 471-502: the rendering branch, entered by a call with
\* use_selenium=True or from line 225; without a selector it sleeps
\* wait_time and waits for nothing
Render455(start, page, body) ==
    /\ pc = "render455"
    /\ start \in {"ok", "fail"}
    /\ page \in {"loaded", "selector_timeout", "webdriver_exc"}
    /\ page = "selector_timeout" => Truthy(call.req.selector)
    /\ page \in {"loaded", "selector_timeout"} => HasScheme(call.req.url)
    /\ LET n == IF start = "fail" THEN 0 ELSE 1
           c == [call EXCEPT !.render = @ + 1, !.launched = @ + n,
                             !.quit = @ + driver_quit_455(start # "fail",
                                                          RenderAction455(start, page)),
                             !.waitTimeout = WaitTimedOut(start, page)]
       IN call' = [c EXCEPT !.result =
                      IF RenderAction455(start, page) = "return_html" THEN body ELSE None]
    /\ pc' = "done"
    /\ UNCHANGED <<cache, calls>>
    /\ UNCHANGED ckptVars
    /\ UNCHANGED orchVars

NextFetcher ==
    \/ Tick
    \/ \E u \in RawUrls, r \in BOOLEAN, s \in Selectors, f \in BOOLEAN : Call162(u, r, s, f)
    \/ \E u \in RawUrls, r \in BOOLEAN, s \in Selectors : CallByName(u, r, s)
    \/ \E code \in Statuses, body \in Docs, io \in IoOutcomes : Static162Response(code, body, io)
    \/ \E exc \in StaticExceptions : Static162Exception(exc)
    \/ \E st \in BrowserStarts, pg \in PageOutcomes, body \in Docs, io \in IoOutcomes :
          Render162(st, pg, body, io)
    \/ \E code \in Statuses, body \in Docs : Static455Response(code, body)
    \/ \E exc \in StaticExceptions : Static455Exception(exc)
    \/ \E st \in BrowserStarts, pg \in PageOutcomes, body \in Docs : Render455(st, pg, body)

SpecFetcher == Init /\ [][NextFetcher]_vars

(***************************************************************************)
(* Checkpoint store: save_checkpoint and load_checkpoint.                  *)
(***************************************************************************)
NumChunks == Len(JsonDumpChunks(NoCheckpoint))

\* how many chunks reach the file: none (the file is left truncated), the
\* ones up to the country, all but the closing brace, all
WrittenChunks == {0, 6, NumChunks - 1, NumChunks}

\* lines 318-340. open(CHECKPOINT_FILE, 'w') truncates the file and json.dump
\* writes into it; opened and k are what the run gets from the file system:
\* the open fails (the file stays as it is), or the first k chunks reach the
\* file before the write fails or the process is stopped, or all of them
\* do. Every exception is logged and dropped.
save_checkpoint(country, index, name, opened, k) ==
    /\ ckptOps < MaxCkptOps
    /\ ckptOps' = ckptOps + 1
    /\ ckptLast' = "save"
    /\ ckptPrev' = ckptFile
    /\ LET ck == Checkpoint(country, index, name)
       IN /\ ckptFile' = IF opened THEN CkptFile(Written(ck, k)) ELSE ckptFile
          /\ ckptSaved' = [made |-> TRUE, ck |-> ck, whole |-> opened /\ k = NumChunks]
    /\ UNCHANGED ckptLoaded
    /\ UNCHANGED fetchVars
    /\ UNCHANGED orchVars

\* lines 342-359
LoadCheckpoint ==
    /\ ckptOps < MaxCkptOps
    /\ ckptOps' = ckptOps + 1
    /\ ckptLast' = "load"
    /\ ckptLoaded' = load_checkpoint(ckptFile)
    /\ UNCHANGED <<ckptFile, ckptPrev, ckptSaved>>
    /\ UNCHANGED fetchVars
    /\ UNCHANGED orchVars

NextCheckpoint ==
    \/ \E c \in Countries, i \in Indices, n \in Names, o \in BOOLEAN, k \in WrittenChunks :
          save_checkpoint(c, i, n, o, k)
    \/ LoadCheckpoint

SpecCheckpoint == Init /\ [][NextCheckpoint]_vars

(***************************************************************************)
(* main: the crawl (lines 3581-3835).                                      *)
(*                                                                         *)
(* The list is the first two countries of get_universities_data, with the  *)
(* five universities each country has. The processing of one university    *)
(* (the try block of lines 3669-3789) is one step here, seen through its   *)
(* result; it is modelled task by task further down.                       *)
(*                                                                         *)
(*   runPhase       stopped: no process; loop: at the head of an iteration *)
(*                  of the inner for; saved: the checkpoint call is made,  *)
(*                  the try block is running; final: the loops are over;   *)
(*                  written: the final output was attempted; finished;     *)
(*                  returned: main returned early (no template)            *)
(*   attempted      the (country_idx, univ_idx) of the iterations entered  *)
(*                  in this run, in order                                  *)
(*   lastSaveWhole  the last save_checkpoint wrote its document            *)
(*   stepResult     how the last university's step ended                    *)
(*   lastSnap       the last university's step persisted a partial file    *)
(*   persisted      what the end of the run could write                    *)
(*   ckptRemoved    this run removed checkpoint.json                       *)
(*   workbookFrom   the list position of the first university that can     *)
(*                  have a record in the final workbook on disk, -1 if     *)
(*                  there is no workbook or no record                      *)
(*   backupWrites   write_excel calls for a backup file in this run        *)
(*   criticalLogged logger.critical was called in this run                 *)
(*   resumed        this run follows a run that was interrupted, and       *)
(*   interruptedAt  the place in the list of the university that run was   *)
(*                  at (the length of the list if it was past the loops)   *)
(***************************************************************************)
countries == << <<"A", "l">>, <<"E", "ñ">> >>

NumUniversities(c) == UNIVS_PER_COUNTRY

\* the place of universities[countries[c]][i] in the whole list, from 0
Flat(c, i) == c * UNIVS_PER_COUNTRY + i

TotalUniversities == Len(countries) * UNIVS_PER_COUNTRY

\* countries.index(country), from 0; -1 stands for ValueError
CountriesIndex(country) ==
    IF \E c \in 1..Len(countries) : countries[c] = country
    THEN (CHOOSE c \in 1..Len(countries) : countries[c] = country) - 1
    ELSE -1

\* a resume that starts after the university of the checkpoint
StartIndicesAfter(loaded) ==
    IF loaded.found /\ CountriesIndex(loaded.ck.country) >= 0
    THEN <<CountriesIndex(loaded.ck.country), loaded.ck.university_index + 1>>
    ELSE <<0, 0>>

\* lines 3610-3623: the start indices for what load_checkpoint returned
StartIndices(loaded) ==
    IF loaded.found /\ CountriesIndex(loaded.ck.country) >= 0
    THEN <<CountriesIndex(loaded.ck.country), loaded.ck.university_index>>
    ELSE <<0, 0>>

\* lines 3656-3662: the first iteration at or after (c, i): a country whose
\* slice universities[country][i:] is empty is passed over
RECURSIVE FirstIteration(_, _)
FirstIteration(c, i) ==
    IF c >= Len(countries) THEN <<"final", 0, 0>>
    ELSE IF i < NumUniversities(c) THEN <<"loop", c, i>>
    ELSE FirstIteration(c + 1, 0)

\* DataFrames that start from what an earlier run wrote
InitialTablesReadBack(onDisk) == onDisk

\* lines 3640-3648: every DataFrame starts as pd.DataFrame(), whatever is on
\* disk: the list position of the first university with a record, -1 for none
InitialTables(onDisk) == -1

\* lines 3640-3773: the DataFrames hold what they started with and what the
\* iterations of this run appended (lines 3673, 3701-3773), so the first
\* university that can have a record is the first one of these
TablesFrom ==
    LET init == InitialTables(workbookFrom)
        first == IF attempted = <<>> THEN -1 ELSE Flat(attempted[1][1], attempted[1][2])
    IN IF init = -1 THEN first
       ELSE IF first = -1 \/ init < first THEN init ELSE first

\* lines 3609-3653: main up to the loops
StartRun(templateOk) ==
    /\ runPhase \in {"stopped", "finished", "returned"}
    /\ runs < MaxRuns
    /\ runs' = runs + 1
    /\ resumed' = (runPhase = "stopped" /\ runs >= 1)
    /\ LET start == StartIndices(load_checkpoint(ckptFile))
           first == FirstIteration(start[1], start[2])
       IN /\ start_country_idx' = start[1]
          /\ start_univ_idx' = start[2]
          /\ IF templateOk
             THEN /\ runPhase' = first[1]
                  /\ country_idx' = first[2]
                  /\ univ_idx' = first[3]
             ELSE /\ runPhase' = "returned"
                  /\ country_idx' = 0
                  /\ univ_idx' = 0
    /\ attempted' = <<>>
    /\ lastSaveWhole' = FALSE
    /\ stepResult' = "none"
    /\ lastSnap' = FALSE
    /\ persisted' = "none"
    /\ ckptRemoved' = FALSE
    /\ backupWrites' = 0
    /\ criticalLogged' = FALSE
    /\ UNCHANGED <<workbookFrom, interruptedAt>>
    /\ UNCHANGED <<fetchVars, ckptVars, univVars, extVars, fileVars>>

\* lines 3663-3667: the head of an iteration, save_checkpoint(country,
\* univ_idx, university_name) with what the file system does to the write
CheckpointUniversity(opened, k) ==
    /\ runPhase = "loop"
    /\ runPhase' = "saved"
    /\ attempted' = Append(attempted, <<country_idx, univ_idx>>)
    /\ LET ck == Checkpoint(countries[country_idx + 1], univ_idx, Name(<<"X">>))
       IN ckptFile' = IF opened THEN CkptFile(Written(ck, k)) ELSE ckptFile
    /\ lastSaveWhole' = (opened /\ k = NumChunks)
    /\ UNCHANGED <<country_idx, univ_idx, start_country_idx, start_univ_idx, stepResult,
                   lastSnap, persisted, ckptRemoved, runs, resumed, interruptedAt>>
    /\ UNCHANGED outVars
    /\ UNCHANGED <<ckptPrev, ckptSaved, ckptLoaded, ckptLast, ckptOps>>
    /\ UNCHANGED <<fetchVars, univVars, extVars, fileVars>>

\* line 3778
SnapshotDue(c, i) ==
    \/ (i + 1) % SNAPSHOT_EVERY = 0
    \/ (c = Len(countries) - 1 /\ i = NumUniversities(c) - 1)

\* the try block either runs to its end, or raises before line 3778, or
\* raises in write_excel of the partial file (line 3907 re-raises)
StepResults == {"ok", "raised", "snapshot_raised"}

\* a per-university step without its except clause
StepExceptionNotCaught == FALSE

\* line 3786: except Exception catches what the try block raises
StepExceptionCaught == TRUE

\* the next iteration of the inner for, or of the outer one
NextIteration(c, i) ==
    IF i + 1 < NumUniversities(c) THEN <<"loop", c, i + 1>>
    ELSE FirstIteration(c + 1, 0)

\* lines 3669-3789: the try block of one university and its except clause
ProcessUniversity(result) ==
    /\ runPhase = "saved"
    /\ result = "snapshot_raised" => SnapshotDue(country_idx, univ_idx)
    /\ stepResult' = result
    /\ lastSnap' = (result = "ok" /\ SnapshotDue(country_idx, univ_idx))
    /\ LET next == NextIteration(country_idx, univ_idx)
       IN IF result = "ok" \/ StepExceptionCaught
          THEN /\ runPhase' = next[1]
               /\ country_idx' = next[2]
               /\ univ_idx' = next[3]
          ELSE /\ runPhase' = "crashed"
               /\ UNCHANGED <<country_idx, univ_idx>>
    /\ UNCHANGED outVars
    /\ UNCHANGED <<start_country_idx, start_univ_idx, attempted, lastSaveWhole,
                   persisted, ckptRemoved, runs, resumed, interruptedAt>>
    /\ UNCHANGED <<fetchVars, ckptVars, univVars, extVars, fileVars>>

\* lines 3837-3907: pd.ExcelWriter(output_file, engine='openpyxl') replaces
\* the file; the sheets written are the DataFrames and the dashboard of the
\* template
write_excel(frames, onDisk) == frames

\* a final write that also writes the backup file when the output file was
\* written
final_write_with_backup(finalOk, backupOk) ==
    [persisted |-> IF finalOk THEN "output" ELSE IF backupOk THEN "backup" ELSE "none",
     backups |-> 1, critical |-> ~backupOk]

\* lines 3791-3812: write_excel for OUTPUT_EXCEL; if it raises, write_excel
\* for the backup file; if that raises too, logger.critical
final_write(finalOk, backupOk) ==
    IF finalOk THEN [persisted |-> "output", backups |-> 0, critical |-> FALSE]
    ELSE IF backupOk THEN [persisted |-> "backup", backups |-> 1, critical |-> FALSE]
    ELSE [persisted |-> "none", backups |-> 1, critical |-> TRUE]

\* lines 3791-3812
WriteFinal(finalOk, backupOk) ==
    /\ runPhase = "final"
    /\ runPhase' = "written"
    /\ LET w == final_write(finalOk, backupOk)
       IN /\ persisted' = w.persisted
          /\ backupWrites' = backupWrites + w.backups
          /\ criticalLogged' = w.critical
          /\ workbookFrom' = IF w.persisted = "output" THEN write_excel(TablesFrom, workbookFrom)
                              ELSE workbookFrom
    /\ UNCHANGED <<country_idx, univ_idx, start_country_idx, start_univ_idx, attempted,
                   lastSaveWhole, stepResult, lastSnap, ckptRemoved, runs, resumed,
                   interruptedAt>>
    /\ UNCHANGED <<fetchVars, ckptVars, univVars, extVars, fileVars>>

\* lines 3814-3835: os.remove(CHECKPOINT_FILE) if the file exists, whatever
\* the final write did; an os.remove that raises is logged
RemoveCheckpoint(removed) ==
    /\ runPhase = "written"
    /\ runPhase' = "finished"
    /\ IF ckptFile.exists /\ removed
       THEN /\ ckptFile' = NoCkptFile
            /\ ckptRemoved' = TRUE
       ELSE UNCHANGED <<ckptFile, ckptRemoved>>
    /\ UNCHANGED <<country_idx, univ_idx, start_country_idx, start_univ_idx, attempted,
                   lastSaveWhole, stepResult, lastSnap, persisted, runs, resumed,
                   interruptedAt>>
    /\ UNCHANGED outVars
    /\ UNCHANGED <<ckptPrev, ckptSaved, ckptLoaded, ckptLast, ckptOps>>
    /\ UNCHANGED <<fetchVars, univVars, extVars, fileVars>>

\* the process is stopped (killed, Ctrl-C, power) while main runs
Interrupt ==
    /\ runPhase \in {"loop", "saved", "final", "written"}
    /\ runPhase' = "stopped"
    /\ interruptedAt' = IF runPhase \in {"loop", "saved"} THEN Flat(country_idx, univ_idx)
                        ELSE TotalUniversities
    /\ UNCHANGED <<country_idx, univ_idx, start_country_idx, start_univ_idx, attempted,
                   lastSaveWhole, stepResult, lastSnap, persisted, ckptRemoved, runs,
                   resumed>>
    /\ UNCHANGED outVars
    /\ UNCHANGED <<fetchVars, ckptVars, univVars, extVars, fileVars>>

NextCrawl ==
    \/ \E t \in BOOLEAN : StartRun(t)
    \/ \E o \in BOOLEAN, k \in WrittenChunks : CheckpointUniversity(o, k)
    \/ \E r \in StepResults : ProcessUniversity(r)
    \/ \E f \in BOOLEAN, b \in BOOLEAN : WriteFinal(f, b)
    \/ \E r \in BOOLEAN : RemoveCheckpoint(r)
    \/ Interrupt

SpecCrawl == Init /\ [][NextCrawl]_vars

(***************************************************************************)
(* main: the processing of one university, task by task (lines 3669-3789). *)
(*                                                                         *)
(*   uPhase          next: between two universities; tasks: inside the     *)
(*                   with block, in the as_completed loop; aborting: a     *)
(*                   handler raised, the with block is being left;         *)
(*                   accumulating: the with block is left, lines 3722-3773 *)
(*   uCount          the number of the university being processed, from 1  *)
(*   univ_id         university_data['Univ_ID'] (line 3675)                *)
(*   tasks           the futures of the executors that still exist: key,   *)
(*                   the university they were submitted for, the univ_id   *)
(*                   they were given, and their state                      *)
(*   handled         the keys as_completed has yielded                     *)
(*   extracted_data  line 3679; a value is its kind and the Univ_ID its    *)
(*                   records carry                                         *)
(*   failures        the number of tasks that raised so far                *)
(*   tables          the accumulated DataFrames: one row per record, with  *)
(*                   the university it was accumulated for and its Univ_ID *)
(*                   (the records of one list are one row here; how many   *)
(*                   an extractor returns is modelled with the extractors) *)
(***************************************************************************)
TaskKeys == <<"programs", "labs", "scholarships", "admission", "cost", "outcome">>

TaskKeySet == {TaskKeys[n] : n \in 1..Len(TaskKeys)}

ListKeys == {"programs", "labs", "scholarships"}

KeyPos(key) == CHOOSE n \in 1..Len(TaskKeys) : TaskKeys[n] = key

\* the DataFrame a key is accumulated into (lines 3731-3753)
TableOf(key) ==
    CASE key = "programs" -> "programs_df"
      [] key = "labs" -> "labs_df"
      [] key = "scholarships" -> "scholarships_df"
      [] key = "admission" -> "admissions_df"
      [] key = "cost" -> "costs_df"
      [] key = "outcome" -> "outcomes_df"

TableNames == {"universities_df"} \cup {TableOf(key) : key \in TaskKeySet}

\* abs(hash(university_name)) % 10000: str hashes are salted per process,
\* and two names can share a value
UnivIds == {"UNIV0001", "UNIV0002"}

\* what get_html gave extract_university_info for the main page: nothing,
\* a page without a link matching about|university|overview, a page with
\* such a link, and one whose link has an href urljoin rejects with
\* ValueError (such as "http://[about")
MainPages == {"none", "no_about_link", "about_link", "about_link_bad_href"}

\* lines 521-676: the record, or the exception that leaves the function
\* (no statement of it is inside a try)
extract_university_info(page, id) ==
    IF page = "about_link_bad_href"
    THEN [raised |-> TRUE, Univ_ID |-> id]
    ELSE [raised |-> FALSE, Univ_ID |-> id]

\* a record whose Univ_ID is computed again instead of taken from the caller
RecordUnivIdRehashed(id) == "UNIV0000"

\* 'Univ_ID': univ_id in every record an extractor builds
RecordUnivId(id) == id

NoValue == [kind |-> "None", Univ_ID |-> "None"]

\* the signatures of lines 678, 1465 and 2166 have fallback=False; those of
\* lines 2857, 3018 and 3229 have no such parameter
HasFallbackParameter(key) == key \in ListKeys

\* lines 3709-3720: what the handler of a failed task assigns, or the
\* TypeError of a call with an unexpected keyword argument
HandlerValue(key, id) ==
    IF key \in ListKeys THEN [kind |-> "empty", Univ_ID |-> "None"]
    ELSE IF HasFallbackParameter(key) THEN [kind |-> "fallback", Univ_ID |-> RecordUnivId(id)]
    ELSE [kind |-> "TypeError", Univ_ID |-> "None"]

Unfinished(ts) == {t \in ts : t.state \in {"queued", "running"}}

\* an executor left without waiting for its threads
ExitWithoutWaiting == TRUE

\* ThreadPoolExecutor.__exit__ is shutdown(wait=True): queued tasks still
\* run, and the with block is left when every task has ended
ExitWaits == Unfinished(tasks) = {}

\* lines 3669-3697: extract_university_info, the University row, and the
\* six submits
StartUniversity(page, id) ==
    /\ uPhase = "next"
    /\ uCount < MaxUniversities
    /\ uCount' = uCount + 1
    /\ LET university_data == extract_university_info(page, id)
       IN IF university_data.raised
          THEN /\ uPhase' = "next"
               /\ UNCHANGED <<univ_id, tasks, tables>>
          ELSE /\ uPhase' = "tasks"
               /\ univ_id' = university_data.Univ_ID
               /\ tables' = [tables EXCEPT !["universities_df"] =
                      Append(@, [u |-> uCount + 1, Univ_ID |-> university_data.Univ_ID])]
               /\ tasks' = tasks \cup
                      {[key |-> key, u |-> uCount + 1,
                        Univ_ID |-> university_data.Univ_ID, state |-> "queued"] :
                       key \in TaskKeySet}
    /\ handled' = {}
    /\ extracted_data' = [key \in TaskKeySet |-> NoValue]
    /\ UNCHANGED failures
    /\ UNCHANGED <<fetchVars, ckptVars, crawlVars, extVars, fileVars>>

\* a worker thread of the executor takes the next queued task
TaskStarts(t) ==
    /\ t \in tasks
    /\ t.state = "queued"
    /\ \A o \in tasks : (o.u = t.u /\ o.state = "queued") => KeyPos(t.key) <= KeyPos(o.key)
    /\ Cardinality({o \in tasks : o.u = t.u /\ o.state = "running"}) < MAX_WORKERS
    /\ tasks' = (tasks \ {t}) \cup {[t EXCEPT !.state = "running"]}
    /\ UNCHANGED <<uPhase, uCount, univ_id, handled, extracted_data, tables, failures>>
    /\ UNCHANGED <<fetchVars, ckptVars, crawlVars, extVars, fileVars>>

\* the extractor returns, or raises
TaskEnds(t, raised) ==
    /\ t \in tasks
    /\ t.state = "running"
    /\ raised => failures < MaxFailures
    /\ failures' = IF raised THEN failures + 1 ELSE failures
    /\ tasks' = (tasks \ {t}) \cup {[t EXCEPT !.state = IF raised THEN "raised" ELSE "ok"]}
    /\ UNCHANGED <<uPhase, uCount, univ_id, handled, extracted_data, tables>>
    /\ UNCHANGED <<fetchVars, ckptVars, crawlVars, extVars, fileVars>>

\* lines 3700-3720: as_completed yields a future that has ended
HandleCompleted(t) ==
    /\ uPhase = "tasks"
    /\ t \in tasks
    /\ t.u = uCount
    /\ t.state \in {"ok", "raised"}
    /\ t.key \notin handled
    /\ handled' = handled \cup {t.key}
    /\ LET value == IF t.state = "ok"
                    THEN [kind |-> "records", Univ_ID |-> RecordUnivId(t.Univ_ID)]
                    ELSE HandlerValue(t.key, univ_id)
       IN IF value.kind = "TypeError"
          THEN /\ uPhase' = "aborting"
               /\ UNCHANGED extracted_data
          ELSE /\ extracted_data' = [extracted_data EXCEPT ![t.key] = value]
               /\ UNCHANGED uPhase
    /\ UNCHANGED <<uCount, univ_id, tasks, tables, failures>>
    /\ UNCHANGED <<fetchVars, ckptVars, crawlVars, extVars, fileVars>>

\* line 3721: the with block is left after the loop, or by the exception of
\* a handler, which line 3786 catches
LeaveExecutor ==
    /\ \/ uPhase = "tasks" /\ handled = TaskKeySet
       \/ uPhase = "aborting"
    /\ ExitWaits
    /\ tasks' = Unfinished(tasks)
    /\ uPhase' = IF uPhase = "aborting" THEN "next" ELSE "accumulating"
    /\ UNCHANGED <<uCount, univ_id, handled, extracted_data, tables, failures>>
    /\ UNCHANGED <<fetchVars, ckptVars, crawlVars, extVars, fileVars>>

\* lines 3722-3753: a list that is not empty, a dict that is not None
Accumulated(key) == extracted_data[key].kind \in {"records", "fallback"}

\* lines 3722-3773
Accumulate ==
    /\ uPhase = "accumulating"
    /\ uPhase' = "next"
    /\ tables' = [name \in TableNames |->
           IF \E key \in TaskKeySet : TableOf(key) = name /\ Accumulated(key)
           THEN Append(tables[name],
                       [u |-> uCount,
                        Univ_ID |-> extracted_data[CHOOSE key \in TaskKeySet :
                                                     TableOf(key) = name].Univ_ID])
           ELSE tables[name]]
    /\ UNCHANGED <<uCount, univ_id, tasks, handled, extracted_data, failures>>
    /\ UNCHANGED <<fetchVars, ckptVars, crawlVars, extVars, fileVars>>

NextUniversity ==
    \/ \E page \in MainPages, id \in UnivIds : StartUniversity(page, id)
    \/ \E t \in tasks : TaskStarts(t)
    \/ \E t \in tasks, raised \in BOOLEAN : TaskEnds(t, raised)
    \/ \E t \in tasks : HandleCompleted(t)
    \/ LeaveExecutor
    \/ Accumulate

SpecUniversity == Init /\ [][NextUniversity]_vars

(***************************************************************************)
(* The list extractors: extract_program_info (lines 678-1012),             *)
(* extract_lab_info (lines 1465-2159, the definition in force) and         *)
(* extract_scholarship_info (lines 2166-2855), as functions of what the    *)
(* fetches give them. A record is its category (program type or research   *)
(* area) and its Notes field.                                              *)
(***************************************************************************)
APPROXIMATE == "Datos aproximados, verificar en el sitio web oficial"
GENERATED == "Información básica generada automáticamente"
INTERNATIONAL == "International scholarship program"

\* two of the three program types, three of the seven research areas
ProgramTypes == <<"Computer Science", "Mathematics">>
ResearchAreas == <<"AI", "Data Science", "HCI">>

\* for each keyword in turn, the number of links whose page can be fetched
LinkCounts == {0, 1, MaxLinks}
KeywordLinks == [1..MaxKeywords -> LinkCounts]

\* entries of international_scholarships that apply to a country of the
\* list: México 1, Chile 2, Reino Unido 6
ApplicableCounts == {1, 2, 6}

Records(cat, notes, n) == [i \in 1..n |-> [cat |-> cat, Notes |-> notes]]

CountOf(out, cat) == Cardinality({i \in DOMAIN out : out[i].cat = cat})

\* lines 861-879: each link appends a program, then the limit is tested and
\* breaks the loop over the links of this keyword
RECURSIVE AddPrograms(_, _)
AddPrograms(c, n) ==
    IF n = 0 THEN c
    ELSE IF c + 1 >= PROGRAMS_PER_TYPE THEN c + 1
    ELSE AddPrograms(c + 1, n - 1)

\* lines 1707-2107: the limit is tested before each fetch and after each
\* append
RECURSIVE AddLabs(_, _)
AddLabs(c, n) ==
    IF n = 0 \/ c >= max_labs_per_area THEN c
    ELSE IF c + 1 >= max_labs_per_area THEN c + 1
    ELSE AddLabs(c + 1, n - 1)

\* lines 2691-2704 and 2819-2824: each append is followed by the test, and
\* the test is repeated at every loop level
RECURSIVE AddScholarships(_, _)
AddScholarships(c, n) ==
    IF n = 0 THEN c
    ELSE IF c + 1 >= SCHOLARSHIPS_LIMIT THEN c + 1
    ELSE AddScholarships(c + 1, n - 1)

\* the loop over the keywords of one program type (line 848)
RECURSIVE ScrapePrograms(_, _, _)
ScrapePrograms(links, k, c) ==
    IF k > Len(links) THEN c
    ELSE ScrapePrograms(links, k + 1, AddPrograms(c, links[k]))

\* the loop over the keywords of one research area
RECURSIVE ScrapeLabs(_, _, _)
ScrapeLabs(links, k, c) ==
    IF k > Len(links) THEN c
    ELSE ScrapeLabs(links, k + 1, AddLabs(c, links[k]))

RECURSIVE Sum(_, _)
Sum(f, n) == IF n = 0 THEN 0 ELSE f[n] + Sum(f, n - 1)

RECURSIVE ConcatRecords(_, _, _, _)
ConcatRecords(cats, counts, notes, n) ==
    IF n = 0 THEN <<>>
    ELSE ConcatRecords(cats, counts, notes, n - 1) \o Records(cats[n], notes[n], counts[n])

ProgramInputs ==
    [links : [DOMAIN ProgramTypes -> KeywordLinks],
     specific : SUBSET DOMAIN ProgramTypes,
     search : BOOLEAN]

\* lines 822-1012 for fallback=False: the listing pages, then the specific
\* URLs when nothing was found, then the search for the types still without
\* a program when fewer than 3 were found, then the fictitious programs
extract_program_info(in) ==
    LET T == DOMAIN ProgramTypes
        listed == [t \in T |-> ScrapePrograms(in.links[t], 1, 0)]
        byUrl == [t \in T |->
                     IF Sum(listed, Len(ProgramTypes)) = 0 /\ t \in in.specific THEN 1 ELSE 0]
        found == [t \in T |-> listed[t] + byUrl[t]]
        bySearch == [t \in T |->
                        IF Sum(found, Len(ProgramTypes)) < ENOUGH_RECORDS
                           /\ found[t] = 0 /\ in.search
                        THEN 1 ELSE 0]
        programs == [t \in T |-> found[t] + bySearch[t]]
    IN IF Sum(programs, Len(ProgramTypes)) = 0
       THEN ConcatRecords(ProgramTypes, [t \in T |-> 1], [t \in T |-> APPROXIMATE],
                          Len(ProgramTypes))
       ELSE ConcatRecords(ProgramTypes, programs, [t \in T |-> ""], Len(ProgramTypes))

LabInputs == [links : [DOMAIN ResearchAreas -> KeywordLinks]]

\* the first n research areas, in order, that have no lab
RECURSIVE RemainingAreas(_, _, _)
RemainingAreas(labs, a, n) ==
    IF a > Len(ResearchAreas) \/ n <= 0 THEN {}
    ELSE IF labs[a] = 0 THEN {a} \cup RemainingAreas(labs, a + 1, n - 1)
    ELSE RemainingAreas(labs, a + 1, n)

\* lines 1618-2159 for fallback=False
extract_lab_info(in) ==
    LET A == DOMAIN ResearchAreas
        labs == [a \in A |-> ScrapeLabs(in.links[a], 1, 0)]
        total == Sum(labs, Len(ResearchAreas))
        areas_to_add == IF total < ENOUGH_RECORDS
                        THEN RemainingAreas(labs, 1, ENOUGH_RECORDS - total)
                        ELSE {}
    IN ConcatRecords(ResearchAreas, labs, [a \in A |-> ""], Len(ResearchAreas))
       \o ConcatRecords(ResearchAreas, [a \in A |-> IF a \in areas_to_add THEN 1 ELSE 0],
                        [a \in A |-> GENERATED], Len(ResearchAreas))

ScholarshipInputs == [items : 0..MaxItems, applicable : ApplicableCounts]

\* lines 2280-2855 for fallback=False: the scraped items, then the
\* international scholarships of the country when fewer than 3 were found,
\* then the generic ones when there is none
extract_scholarship_info(in) ==
    LET scraped == AddScholarships(0, in.items)
        withKnown == IF scraped < ENOUGH_RECORDS
                     THEN AddScholarships(scraped, in.applicable)
                     ELSE scraped
    IN IF withKnown = 0
       THEN Records("scholarship", APPROXIMATE, 3)
       ELSE Records("scholarship", "", scraped)
            \o Records("scholarship", INTERNATIONAL, withKnown - scraped)

\* one invocation of each extractor is followed: its input and its result
ExtractPrograms(in) ==
    /\ ex.kind = "none"
    /\ ex' = [kind |-> "programs", in |-> in, out |-> extract_program_info(in)]
    /\ UNCHANGED <<fetchVars, ckptVars, crawlVars, univVars, fileVars>>

ExtractLabs(in) ==
    /\ ex.kind = "none"
    /\ ex' = [kind |-> "labs", in |-> in, out |-> extract_lab_info(in)]
    /\ UNCHANGED <<fetchVars, ckptVars, crawlVars, univVars, fileVars>>

ExtractScholarships(in) ==
    /\ ex.kind = "none"
    /\ ex' = [kind |-> "scholarships", in |-> in, out |-> extract_scholarship_info(in)]
    /\ UNCHANGED <<fetchVars, ckptVars, crawlVars, univVars, fileVars>>

(***************************************************************************)
(* The list extractors, seen through the URLs they visit: which pages they *)
(* fetch and which page each record comes from.                            *)
(***************************************************************************)
\* URLs as urlparse splits them; the paths are sequences of characters
LinkUrls ==
    {[netloc |-> "a", path |-> <<"/", "m">>, query |-> ""],
     [netloc |-> "a", path |-> <<"/", "M", "/">>, query |-> ""],
     [netloc |-> "a", path |-> <<"/", "m">>, query |-> "q"]}

RECURSIVE LinkSeqs(_)
LinkSeqs(n) ==
    IF n = 0 THEN {<<>>}
    ELSE LinkSeqs(n - 1) \cup {Append(q, u) : q \in {x \in LinkSeqs(n - 1) : Len(x) = n - 1},
                                               u \in LinkUrls}

\* str.lower() on the characters of the model
LowerChar(c) == IF c = "M" THEN "m" ELSE c
Lower(s) == [i \in 1..Len(s) |-> LowerChar(s[i])]

\* str.rstrip('/')
RECURSIVE RStripSlash(_)
RStripSlash(s) ==
    IF s # <<>> /\ s[Len(s)] = "/" THEN RStripSlash(SubSeq(s, 1, Len(s) - 1)) ELSE s

\* lines 817-819: f"{parsed.netloc}{parsed.path.rstrip('/')}".lower()
normalize_url(url) == <<url.netloc>> \o Lower(RStripSlash(url.path))

\* lines 1623, 1708 and 2284: urlparse(url).path.lower()
path_lower(url) == Lower(url.path)

\* lines 859-880: the links of a listing page, each fetched unless its
\* normalized URL is in processed_urls, a record per page, up to the limit
RECURSIVE VisitProgramLinks(_, _, _, _)
VisitProgramLinks(links, processed, fetched, records) ==
    IF links = <<>> \/ Len(records) >= PROGRAMS_PER_TYPE
    THEN [fetched |-> fetched, records |-> records]
    ELSE LET u == Head(links)
         IN IF normalize_url(u) \in processed
            THEN VisitProgramLinks(Tail(links), processed, fetched, records)
            ELSE VisitProgramLinks(Tail(links), processed \cup {normalize_url(u)},
                                   Append(fetched, u), Append(records, u))

\* lines 813-880: processed_urls starts empty, the listing page is fetched
\* (line 826) and is not added to it
program_pages(base, links) == VisitProgramLinks(links, {}, <<base>>, <<>>)

\* lines 1700-1718: the links of a research page, up to the limit of an area
RECURSIVE VisitLabLinks(_, _, _, _)
VisitLabLinks(links, processed, fetched, records) ==
    IF links = <<>> \/ Len(records) >= max_labs_per_area
    THEN [fetched |-> fetched, records |-> records]
    ELSE LET u == Head(links)
         IN IF path_lower(u) \in processed
            THEN VisitLabLinks(Tail(links), processed, fetched, records)
            ELSE VisitLabLinks(Tail(links), processed \cup {path_lower(u)},
                               Append(fetched, u), Append(records, u))

\* lines 1615-1718: the research page is added to processed_urls (line 1626)
\* before it is fetched
lab_pages(page, links) == VisitLabLinks(links, {path_lower(page)}, <<page>>, <<>>)

\* lines 2396-2405: a record for every title of the page that no record has
\* yet; its 'Scholarship Website' is the URL of the page (line 2425)
RECURSIVE AddTitles(_, _, _)
AddTitles(records, page, k) ==
    IF k = 0 THEN records
    ELSE LET sofar == AddTitles(records, page, k - 1)
         IN IF \E i \in 1..Len(sofar) : sofar[i].name = k THEN sofar
            ELSE Append(sofar, [name |-> k, url |-> page])

\* lines 2278-2405: the scholarship pages, each fetched unless its path is
\* in processed_urls; titles is the number of scholarships a page lists
RECURSIVE VisitScholarshipPages(_, _, _, _, _)
VisitScholarshipPages(pages, titles, processed, fetched, records) ==
    IF pages = <<>>
    THEN [fetched |-> fetched, records |-> [i \in 1..Len(records) |-> records[i].url]]
    ELSE LET u == Head(pages)
         IN IF path_lower(u) \in processed
            THEN VisitScholarshipPages(Tail(pages), titles, processed, fetched, records)
            ELSE VisitScholarshipPages(Tail(pages), titles, processed \cup {path_lower(u)},
                                       Append(fetched, u), AddTitles(records, u, titles))

scholarship_pages(pages, titles) == VisitScholarshipPages(pages, titles, {}, <<>>, <<>>)

VisitProgramPages(base, links) ==
    /\ ex.kind = "none"
    /\ ex' = [kind |-> "program_pages", base |-> base, links |-> links,
              out |-> program_pages(base, links)]
    /\ UNCHANGED <<fetchVars, ckptVars, crawlVars, univVars, fileVars>>

VisitLabPages(page, links) ==
    /\ ex.kind = "none"
    /\ ex' = [kind |-> "lab_pages", base |-> page, links |-> links,
              out |-> lab_pages(page, links)]
    /\ UNCHANGED <<fetchVars, ckptVars, crawlVars, univVars, fileVars>>

VisitScholarships(pages, titles) ==
    /\ ex.kind = "none"
    /\ ex' = [kind |-> "scholarship_pages", links |-> pages, titles |-> titles,
              out |-> scholarship_pages(pages, titles)]
    /\ UNCHANGED <<fetchVars, ckptVars, crawlVars, univVars, fileVars>>

NextExtract ==
    \/ \E in \in ProgramInputs : ExtractPrograms(in)
    \/ \E in \in LabInputs : ExtractLabs(in)
    \/ \E in \in ScholarshipInputs : ExtractScholarships(in)
    \/ \E base \in LinkUrls, links \in LinkSeqs(MaxLinks) : VisitProgramPages(base, links)
    \/ \E page \in LinkUrls, links \in LinkSeqs(MaxLinks) : VisitLabPages(page, links)
    \/ \E pages \in LinkSeqs(MaxLinks), titles \in 1..MaxTitles : VisitScholarships(pages, titles)

SpecExtract == Init /\ [][NextExtract]_vars

(***************************************************************************)
(* The reference log: references.md, main's initialisation of it and       *)
(* log_reference, called by the extractors in the worker threads.          *)
(*                                                                         *)
(*   refLog      the content of the file, a sequence of tokens (pieces of  *)
(*               text; "\n" is the end of a line), <<>> if it is missing   *)
(*               or empty; refExists tells the two apart                   *)
(*   logWriters  per worker thread, the log_reference call under way: the  *)
(*               line it writes and, between the seek and the write of an  *)
(*               append that is not atomic, the offset it writes at        *)
(*   logged      the lines of the calls that returned in this run          *)
(*   appendMode  what a write to a file opened with "a" is on the          *)
(*               platform: one write at the end of the file (O_APPEND of   *)
(*               POSIX), or a seek to the end followed by a write (the C   *)
(*               runtime of Windows); Python promises neither              *)
(***************************************************************************)
LogThreads == 1..MAX_WORKERS

AppendModes == {"O_APPEND", "seek_then_write"}

\* lines 3600 and 310: the header line and the empty line after it
Header == <<"# Referencias de Consulta para Universidad_Comparacion_Populated.xlsx", "\n", "\n">>

\* the name of the university a thread works for, and the URL of a call
EntityName(t) == [i \in 1..t |-> "U"]
UrlOfCall(n) == [i \in 1..n |-> "/"]

\* line 453: f"- [{university} – {purpose}] {url}\n"; the token " -- "
\* stands for the en dash between its spaces
LogLine(university, purpose, url) ==
    <<"- [">> \o university \o <<" -- ">> \o purpose \o <<"] ">> \o url \o <<"\n">>

\* a file written at an offset: the bytes there are replaced, the file grows
\* if the data reaches past its end
WriteAt(f, pos, data) ==
    SubSeq(f, 1, pos) \o data \o SubSeq(f, pos + Len(data) + 1, Len(f))

\* lines 3597-3603: main opens the file with "w" and writes the header, at
\* every start; a failure is logged and main goes on
MainStartsLog(opened, mode) ==
    /\ logRuns < MaxLogRuns
    /\ \A t \in LogThreads : logWriters[t].st = "idle"
    /\ logRuns' = logRuns + 1
    /\ appendMode' = IF logRuns = 0 THEN mode ELSE appendMode
    /\ refLog' = IF opened THEN Header ELSE refLog
    /\ refExists' = (opened \/ refExists)
    /\ logged' = {}
    /\ UNCHANGED <<logWriters, logCalls>>
    /\ UNCHANGED <<fetchVars, ckptVars, crawlVars, univVars, extVars, raceVars>>

\* line 452: open(REFERENCES_FILE, "a") creates the file if it is missing
\* and truncates nothing; if it raises, log_reference raises
LogOpens(t, opened) ==
    /\ logRuns >= 1
    /\ logCalls < MaxLogCalls
    /\ logWriters[t].st = "idle"
    /\ logCalls' = logCalls + 1
    /\ IF opened
       THEN /\ refExists' = TRUE
            /\ logWriters' = [logWriters EXCEPT ![t] =
                  [st |-> "open", pos |-> 0,
                   line |-> LogLine(EntityName(t), <<"p">>, UrlOfCall(logCalls + 1))]]
       ELSE UNCHANGED <<refExists, logWriters>>
    /\ UNCHANGED <<refLog, logged, logRuns, appendMode>>
    /\ UNCHANGED <<fetchVars, ckptVars, crawlVars, univVars, extVars, raceVars>>

\* line 453 and the end of the with block: the line goes to the file when
\* the file object is closed, in one write call; with O_APPEND that write
\* is the append, otherwise the offset is set to the end of the file first
LogFlushes(t) ==
    /\ logWriters[t].st = "open"
    /\ IF appendMode = "O_APPEND"
       THEN /\ refLog' = refLog \o logWriters[t].line
            /\ logged' = logged \cup {logWriters[t].line}
            /\ logWriters' = [logWriters EXCEPT ![t] = [st |-> "idle", line |-> <<>>, pos |-> 0]]
       ELSE /\ logWriters' = [logWriters EXCEPT ![t].st = "seeked", ![t].pos = Len(refLog)]
            /\ UNCHANGED <<refLog, logged>>
    /\ UNCHANGED <<refExists, logCalls, logRuns, appendMode>>
    /\ UNCHANGED <<fetchVars, ckptVars, crawlVars, univVars, extVars, raceVars>>

\* the write that follows the seek
LogWritesAtOffset(t) ==
    /\ logWriters[t].st = "seeked"
    /\ refLog' = WriteAt(refLog, logWriters[t].pos, logWriters[t].line)
    /\ logged' = logged \cup {logWriters[t].line}
    /\ logWriters' = [logWriters EXCEPT ![t] = [st |-> "idle", line |-> <<>>, pos |-> 0]]
    /\ UNCHANGED <<refExists, logCalls, logRuns, appendMode>>
    /\ UNCHANGED <<fetchVars, ckptVars, crawlVars, univVars, extVars, raceVars>>

NextRefLog ==
    \/ \E opened \in BOOLEAN, mode \in AppendModes : MainStartsLog(opened, mode)
    \/ \E t \in LogThreads, opened \in BOOLEAN : LogOpens(t, opened)
    \/ \E t \in LogThreads : LogFlushes(t)
    \/ \E t \in LogThreads : LogWritesAtOffset(t)

SpecRefLog == Init /\ [][NextRefLog]_vars

(***************************************************************************)
(* One cache file under tasks that run save_to_cache and get_from_cache on *)
(* its key at the same time. Nothing in the two functions locks the file;  *)
(* what one task sees of another is decided write by write and read by     *)
(* read.                                                                   *)
(*                                                                         *)
(*   cfile    the cells of the file: the pickle of a document is a cell    *)
(*            with its length, a cell per piece of its text, and a last    *)
(*            cell for the timestamp and the end of the pickle             *)
(*   ctasks   per task: the writes still to make and the offset of its     *)
(*            file object, or the cells read so far                        *)
(*   cgot     what the last get_from_cache returned                        *)
(*   csaved   the documents a save_to_cache has opened the file for        *)
(***************************************************************************)
CacheTasks == 1..MAX_WORKERS

\* documents: two of one length, a longer one, and the empty one
CacheDocs == {<<>>, <<"a", "a">>, <<"b", "b">>, <<"c", "c", "c">>}

LenCell(n) == [t |-> "len", v |-> "", n |-> n]
TextCell(c) == [t |-> "text", v |-> c, n |-> 0]
EndCell == [t |-> "end", v |-> "", n |-> 0]
HoleCell == [t |-> "hole", v |-> "", n |-> 0]

\* line 138: pickle.dump({'html': html, 'timestamp': ...}, f)
PickleDump(d) == <<LenCell(Len(d))>> \o [i \in 1..Len(d) |-> TextCell(d[i])] \o <<EndCell>>

\* the write calls pickle.dump and the close of the file make: one for a
\* pickle that fits the frame of the pickler, else the head, the text
\* (written on its own, without a copy) and the rest
WritesOf(d) ==
    IF Len(d) <= 2 THEN <<PickleDump(d)>>
    ELSE <<<<LenCell(Len(d))>>, [i \in 1..Len(d) |-> TextCell(d[i])], <<EndCell>>>>

\* the cells the first read of a buffered file object brings in
BufferCells == 2

\* lines 108-113: pickle.load and cache_data['html']; anything that is not
\* a whole pickle raises, what follows the end of the pickle is not read
PickleLoad(cells) ==
    IF /\ cells # <<>>
       /\ cells[1].t = "len"
       /\ Len(cells) >= cells[1].n + 2
       /\ \A i \in 2..(cells[1].n + 1) : cells[i].t = "text"
       /\ cells[cells[1].n + 2].t = "end"
    THEN [raised |-> FALSE, html |-> [i \in 1..cells[1].n |-> cells[i + 1].v]]
    ELSE [raised |-> TRUE, html |-> <<>>]

\* a write at an offset past the end of the file leaves a hole
WriteAtOffset(f, off, data) ==
    WriteAt(IF off > Len(f) THEN f \o [i \in 1..(off - Len(f)) |-> HoleCell] ELSE f,
            off, data)

IdleTask == [st |-> "idle", rest |-> <<>>, off |-> 0, got |-> <<>>]

\* lines 129-137: nothing is done for an empty document; open(cache_file,
\* 'wb') truncates the file; an exception is logged (line 141)
SaveOpens(t, d, opened) ==
    /\ ctasks[t].st = "idle"
    /\ cops < MaxCacheOps
    /\ cops' = cops + 1
    /\ IF d # <<>> /\ opened
       THEN /\ cfile' = <<>>
            /\ cfExists' = TRUE
            /\ csaved' = csaved \cup {d}
            /\ ctasks' = [ctasks EXCEPT ![t] = [IdleTask EXCEPT !.st = "saving",
                                                                !.rest = WritesOf(d)]]
       ELSE UNCHANGED <<cfile, cfExists, csaved, ctasks>>
    /\ UNCHANGED cgot
    /\ UNCHANGED <<fetchVars, ckptVars, crawlVars, univVars, extVars, logVars>>

\* line 138: one write of pickle.dump, at the offset of this file object;
\* after the last one the file is closed
SaveWrites(t) ==
    /\ ctasks[t].st = "saving"
    /\ LET data == Head(ctasks[t].rest)
       IN /\ cfile' = WriteAtOffset(cfile, ctasks[t].off, data)
          /\ ctasks' = [ctasks EXCEPT ![t] =
                IF Len(ctasks[t].rest) = 1 THEN IdleTask
                ELSE [ctasks[t] EXCEPT !.rest = Tail(@), !.off = @ + Len(data)]]
    /\ UNCHANGED <<cfExists, cgot, csaved, cops>>
    /\ UNCHANGED <<fetchVars, ckptVars, crawlVars, univVars, extVars, logVars>>

\* lines 105-108: cache_file.exists(), open(cache_file, 'rb') and the first
\* read of pickle.load, which fills the buffer of the file object
GetOpens(t) ==
    /\ ctasks[t].st = "idle"
    /\ cops < MaxCacheOps
    /\ cops' = cops + 1
    /\ IF cfExists
       THEN /\ ctasks' = [ctasks EXCEPT ![t] =
                  [IdleTask EXCEPT !.st = "reading",
                                   !.got = SubSeq(cfile, 1, IF Len(cfile) < BufferCells
                                                            THEN Len(cfile) ELSE BufferCells)]]
            /\ UNCHANGED cgot
       ELSE /\ cgot' = [done |-> TRUE, hit |-> FALSE, html |-> <<>>]
            /\ UNCHANGED ctasks
    /\ UNCHANGED <<cfile, cfExists, csaved>>
    /\ UNCHANGED <<fetchVars, ckptVars, crawlVars, univVars, extVars, logVars>>

\* lines 108-119: the rest of pickle.load, read from where the first read
\* ended, then the return of the document, or of None after an exception
\* (the entries of the model are fresh)
GetReads(t) ==
    /\ ctasks[t].st = "reading"
    /\ LET from == Len(ctasks[t].got)
           more == IF Len(cfile) > from THEN SubSeq(cfile, from + 1, Len(cfile)) ELSE <<>>
           loaded == PickleLoad(ctasks[t].got \o more)
       IN cgot' = [done |-> TRUE, hit |-> ~loaded.raised, html |-> loaded.html]
    /\ ctasks' = [ctasks EXCEPT ![t] = IdleTask]
    /\ UNCHANGED <<cfile, cfExists, csaved, cops>>
    /\ UNCHANGED <<fetchVars, ckptVars, crawlVars, univVars, extVars, logVars>>

NextCacheRace ==
    \/ \E t \in CacheTasks, d \in CacheDocs, opened \in BOOLEAN : SaveOpens(t, d, opened)
    \/ \E t \in CacheTasks : SaveWrites(t)
    \/ \E t \in CacheTasks : GetOpens(t)
    \/ \E t \in CacheTasks : GetReads(t)

SpecCacheRace == Init /\ [][NextCacheRace]_vars

(***************************************************************************)
(* The fetcher and the content cache: properties.                          *)
(***************************************************************************)
Done == pc = "done"

\* the key under which the cache files the request of the current call
CallKey == KeyOf(Request(NormalizeUrl(call.req.url), call.req.use_selenium, call.req.selector))

\* the call took the live path: an HTTP request, a rendering, or a request
\* that requests.get refused before sending it
WentLive == call.http + call.render >= 1 \/ call.lastExc # "none"

\* C1: a call of get_html without force_refresh, for a request whose fresh,
\* non-empty document is in the cache, returns that document and issues no
\* HTTP request, starts no browser and does not sleep.
C1_FreshEntryIsServedWithoutNetwork ==
    (Done /\ ~call.force /\ call.stored # None) =>
        /\ call.result = call.stored
        /\ call.raised = "none"
        /\ call.http = 0
        /\ call.render = 0
        /\ call.launched = 0
        /\ call.sleeps = 0

\* C2: get_from_cache returns None for every file older than the freshness
\* window, and a call that finds such a file for its request never returns
\* from the cache: it goes to the network.
C2_ExpiredEntryIsAMiss ==
    /\ \A k \in Keys :
          (cache[k].file = "ok" /\ cache[k].age >= FRESH_DAYS) =>
              get_from_cache(cache, k) = [ret |-> None, raised |-> FALSE]
    /\ (pc # "idle" /\ call.disk = "expired") => ~call.hit
    /\ (Done /\ call.disk = "expired") => WentLive

\* C2 witness: a call of the caching get_html found an expired file, went to
\* the network and got nothing, and the expired file is still on disk.
C2_Witness ==
    /\ Done
    /\ call.def = "162"
    /\ ~call.force
    /\ call.disk = "expired"
    /\ call.http = 1
    /\ call.result = None
    /\ cache[CallKey].file = "ok"
    /\ cache[CallKey].age >= FRESH_DAYS

\* C3: a static fetch that received 403 or 429 has tried the rendering path
\* by the time it returns.
C3_BlockedFetchTriesRendering ==
    (Done /\ ~call.req.use_selenium /\ call.lastStatus \in {403, 429}) =>
        call.render >= 1

\* C4: a call of get_html never ends with an exception.
C4_FetchNeverRaises == Done => call.raised = "none"

\* C5, as claimed: a static fetch that fails on a status of 500 or above has
\* used all RETRY_ATTEMPTS attempts.
C5_5xxIsRetriedToTheCap ==
    (Done /\ ~call.req.use_selenium /\ call.lastStatus >= 500 /\ call.result = None) =>
        call.attempt = RETRY_ATTEMPTS

\* C5, amended: a static fetch that receives a status of 500 or above returns
\* Failure at once; the attempt that received it is the last one, nothing is
\* rendered and nothing is raised.
C5_5xxReturnsFailureAtOnce ==
    call.lastStatus >= 500 =>
        /\ Done
        /\ call.result = None
        /\ call.raised = "none"
        /\ call.render = 0
        /\ call.http = call.attempt

\* C5 witness: the retrying get_html was at its second attempt, after a
\* network error, when the 500 arrived and ended the call.
C5_Witness ==
    /\ Done
    /\ call.def = "162"
    /\ call.lastStatus = 500
    /\ call.attempt = 2
    /\ call.backoffs = 1
    /\ call.result = None

\* C6: a document taken from the cache was stored by a fetch of the very
\* same request (normalized URL, mode and selector).
C6_HitComesFromTheSameRequest ==
    (Done /\ call.hit) => call.hitFrom = CurReq(call)

\* C7: a fetch made through the name get_html, as the extractors make it,
\* goes through the cache: a fresh entry spares the network, and a document
\* fetched from the network is in the cache afterwards.
C7_FetchByNameGoesThroughCache ==
    (Done /\ call.byName) =>
        /\ call.stored # None => ~WentLive
        /\ (~call.hit /\ call.result # None /\ call.result # "") =>
              (cache[CallKey].file = "ok" /\ cache[CallKey].html = call.result)

\* C8: get_from_cache returns None, and raises nothing, for every file it
\* cannot unpickle, and a call that finds such a file for its request goes on
\* to the network as on a miss.
C8_CorruptEntryIsAMiss ==
    /\ \A k \in Keys :
          cache[k].file = "corrupt" =>
              get_from_cache(cache, k) = [ret |-> None, raised |-> FALSE]
    /\ (pc # "idle" /\ call.disk = "corrupt") =>
          (~call.hit /\ call.raised # "CacheError")
    /\ (Done /\ call.disk = "corrupt") => WentLive

\* C8 witness: the caching get_html looked up a file it could not read, and
\* fetched the document from the network.
C8_Witness ==
    /\ Done
    /\ call.def = "162"
    /\ ~call.force
    /\ call.disk = "corrupt"
    /\ call.http = 1
    /\ call.result = "d1"

\* C25: a wait of the rendering branch that times out is not fatal: with a
\* selector that never appears, and with no selector and a document that
\* is not ready in time, the fetch still returns the page source it
\* captured, and has stored it in the cache.
C25_WaitTimeoutStillReturnsThePage ==
    (pc = "done" /\ call.waitTimeout) =>
        /\ call.raised = "none"
        /\ call.result # None
        /\ call.result # "" => StoredFor(cache, CurReq(call)) = call.result

\* C26: every browser a fetch has started is quit by the time the fetch
\* returns or raises, whatever the path through the rendering branch.
C26_EveryBrowserStartedIsQuit ==
    /\ call.quit = call.launched
    /\ call.launched <= call.render

\* C26 witness: page loading raised an exception that is no
\* WebDriverException, the call raised it, and the browser was quit
C26_Witness ==
    /\ pc = "done"
    /\ call.def = "162"
    /\ call.raised = "Other"
    /\ call.launched = 1
    /\ call.quit = 1

\* C29: a call of the retrying get_html makes at most RETRY_ATTEMPTS
\* attempts, with one backoff between two attempts; an attempt issues one
\* request or enters the rendering branch once, in the requested mode; a
\* static call enters the rendering branch at most once, through line 225,
\* and that ends the call; the rendering branch issues no request; an
\* exception that is no network exception ends the call at once.
C29_RetryingFetchIsBounded ==
    call.def = "162" =>
        /\ call.attempt \in 1..RETRY_ATTEMPTS
        /\ call.backoffs = call.attempt - 1
        /\ call.sleeps <= call.attempt + 1
        /\ IF call.req.use_selenium
           THEN call.http = 0 /\ call.render <= call.attempt /\ ~call.nested
           ELSE /\ call.http <= call.attempt
                /\ call.render <= 1
                /\ call.render = 1 => (call.nested /\ call.lastStatus \in {403, 429})
                /\ (call.nested /\ pc # "done") => pc = "render455"
        /\ call.lastExc \in {"Other", "WebDriverException"} =>
               (pc = "done" /\ call.raised = call.lastExc)
        /\ call.raised = "RetryError" => call.attempt = RETRY_ATTEMPTS

\* C29 witness: three requests raised network exceptions, and the call ended
\* with RetryError
C29_Witness ==
    /\ pc = "done"
    /\ call.def = "162"
    /\ call.raised = "RetryError"
    /\ call.http = RETRY_ATTEMPTS
    /\ call.backoffs = RETRY_ATTEMPTS - 1

(***************************************************************************)
(* The checkpoint store: properties.                                       *)
(***************************************************************************)
\* C9: a load_checkpoint that follows a save_checkpoint which wrote its
\* document returns the country, the index and the name that were saved.
C9_CheckpointRoundTrip ==
    (ckptLast = "load" /\ ckptSaved.made /\ ckptSaved.whole) =>
        /\ ckptLoaded.found
        /\ ckptLoaded.ck.country = ckptSaved.ck.country
        /\ ckptLoaded.ck.university_index = ckptSaved.ck.university_index
        /\ ckptLoaded.ck.university = ckptSaved.ck.university

\* C9 witness: a checkpoint with a non-ASCII country, a two-digit index and
\* a name that needs escaping was saved and read back.
C9_Witness ==
    /\ ckptLast = "load"
    /\ ckptSaved.whole
    /\ ckptLoaded.found
    /\ ckptLoaded.ck.country = <<"E", "ñ">>
    /\ ckptLoaded.ck.university_index = MaxIndex
    /\ ckptLoaded.ck.university = Name(<<"\"", "ñ", "\\">>)

\* C10: after a save_checkpoint over a complete checkpoint, whether it went
\* through or not, the file holds that checkpoint or the new one, whole.
C10_CheckpointWriteIsAllOrNothing ==
    (ckptLast = "save" /\ ckptPrev.exists /\ JsonLoad(ckptPrev.bytes).ok) =>
        \/ ckptFile = ckptPrev
        \/ ckptFile = CkptFile(JsonDump(ckptSaved.ck))


(***************************************************************************)
(* Properties of the crawl.                                                *)
(***************************************************************************)
\* the iterations of the two loops over the whole list, in list order
AllIterations ==
    [n \in 1..TotalUniversities |->
        <<(n - 1) \div UNIVS_PER_COUNTRY, (n - 1) % UNIVS_PER_COUNTRY>>]

InLoops == runPhase \in {"loop", "saved"}
PastLoops == runPhase \in {"final", "written", "finished"}
FlatStart == Flat(start_country_idx, start_univ_idx)

\* C11: the checkpoint is saved before each university is processed (when
\* the write goes through, the file names the university whose step is
\* running); a run processes exactly the universities from its start
\* position, inclusive, in list order, up to where it is, and up to the end
\* of the list once the loops are over; a run that follows an interrupted
\* one starts no later than the university the interrupted run was at.
C11_ResumeProcessesFromTheCheckpoint ==
    /\ (runPhase = "saved" /\ lastSaveWhole) =>
           LET loaded == load_checkpoint(ckptFile)
           IN /\ loaded.found
              /\ loaded.ck.country = countries[country_idx + 1]
              /\ loaded.ck.university_index = univ_idx
    /\ (InLoops \/ PastLoops) =>
           /\ FlatStart + Len(attempted) <= TotalUniversities
           /\ attempted = SubSeq(AllIterations, FlatStart + 1, FlatStart + Len(attempted))
    /\ runPhase = "loop" => Flat(country_idx, univ_idx) = FlatStart + Len(attempted)
    /\ runPhase = "saved" => Flat(country_idx, univ_idx) + 1 = FlatStart + Len(attempted)
    /\ PastLoops => FlatStart + Len(attempted) = TotalUniversities
    /\ (resumed /\ (InLoops \/ PastLoops)) => FlatStart <= interruptedAt

\* a run resumed from a checkpoint in the second country ran to its end
C11_Witness ==
    /\ resumed
    /\ runPhase = "finished"
    /\ start_country_idx = 1
    /\ start_univ_idx = 2
    /\ Len(attempted) = 3

\* C12: the checkpoint file is deleted when the whole crawl completed and
\* its output was persisted; a run that ended before that, or that could
\* persist no output at all, has not removed the file.
C12_CheckpointRemovedOnlyOnSuccess ==
    /\ (runPhase = "finished" /\ persisted # "none" /\ ckptRemoved) => ~ckptFile.exists
    /\ ckptRemoved => (runPhase = "finished" /\ persisted # "none")

\* C14: whatever the processing of one university raises, the step ends in
\* the loop, at the next university in list order (or past the loops after
\* the last one): the run does not end there, and once the loops are over
\* every university from the start position to the end of the list was
\* attempted.
C14_StepExceptionsAreCaught ==
    /\ runPhase # "crashed"
    /\ (stepResult # "none" /\ InLoops) =>
           Flat(country_idx, univ_idx) <= TotalUniversities - 1
    /\ (stepResult \in {"raised", "snapshot_raised"} /\ runPhase = "loop") =>
           <<country_idx, univ_idx>> = AllIterations[FlatStart + Len(attempted) + 1]
    /\ (stepResult \in {"raised", "snapshot_raised"} /\ PastLoops) =>
           attempted = SubSeq(AllIterations, FlatStart + 1, TotalUniversities)

\* the step of the last university raised, and the run went on to its end
C14_Witness ==
    /\ runPhase = "finished"
    /\ stepResult = "raised"
    /\ Len(attempted) = TotalUniversities

\* C17: a partial snapshot is persisted after every 5 universities processed
\* in a run, whatever the start position, and one at the end of the crawl,
\* whether or not the processing of the last university failed.
C17_SnapshotEveryFiveAndAtTheEnd ==
    /\ (runPhase \in {"loop", "final"} /\ Len(attempted) > 0
            /\ Len(attempted) % SNAPSHOT_EVERY = 0) => lastSnap
    /\ (runPhase = "final" /\ Len(attempted) > 0) => lastSnap

\* C24: when the final write fails, exactly one backup write is attempted;
\* logger.critical is called only when the backup write failed too; main
\* goes on to its end in every case. A partial snapshot that cannot be
\* written starts no backup write and does not end the loops.
C24_BackupWriteOnlyAfterFailedFinalWrite ==
    /\ runPhase # "crashed"
    /\ (InLoops \/ runPhase = "final") => (backupWrites = 0 /\ ~criticalLogged)
    /\ runPhase \in {"written", "finished"} =>
           /\ backupWrites = (IF persisted = "output" THEN 0 ELSE 1)
           /\ criticalLogged = (persisted = "none")

\* the snapshot of the last university could not be written, then the final
\* output could not be written and the backup file could
C24_Witness ==
    /\ runPhase = "finished"
    /\ stepResult = "snapshot_raised"
    /\ persisted = "backup"
    /\ backupWrites = 1

\* C28: the tables of a run hold records only of universities at or after
\* its start position, and so does the final workbook it writes: nothing an
\* earlier run accumulated or wrote is in them.
C28_ResumedRunHoldsOnlyLaterUniversities ==
    (InLoops \/ PastLoops) =>
        /\ TablesFrom # -1 => TablesFrom >= FlatStart
        /\ persisted = "output" => workbookFrom = TablesFrom

\* a run resumed in the second country, after a run that had written its
\* workbook, has written its own workbook, with records
C28_Witness ==
    /\ resumed
    /\ interruptedAt = TotalUniversities
    /\ FlatStart > 0
    /\ persisted = "output"
    /\ workbookFrom >= FlatStart

(***************************************************************************)
(* Properties of the processing of one university.                         *)
(***************************************************************************)
Rows(name) == {tables[name][n] : n \in DOMAIN tables[name]}

RowsOf(name, u) == {n \in DOMAIN tables[name] : tables[name][n].u = u}

\* C13: when one of the six dependent tasks raises, the value kept for it is
\* the result of that extractor's fallback-only invocation, and the
\* university is not aborted: all six values reach the accumulation.
C13_FailedTaskGetsItsFallback ==
    /\ uPhase # "aborting"
    /\ \A t \in tasks :
           (t.u = uCount /\ t.state = "raised" /\ t.key \in handled) =>
               extracted_data[t.key].kind = "fallback"
    /\ uPhase = "accumulating" => \A key \in TaskKeySet : Accumulated(key)

\* C15: the University row exists, with its identifier, before any task of
\* the university is submitted, and every Program, Lab and Scholarship row
\* carries the Univ_ID of the University row of the same university.
C15_ChildRecordsCarryTheUniversityId ==
    /\ \A t \in tasks :
           [u |-> t.u, Univ_ID |-> t.Univ_ID] \in Rows("universities_df")
    /\ \A key \in ListKeys :
           /\ extracted_data[key].kind \in {"records", "fallback"} =>
                  extracted_data[key].Univ_ID = univ_id
           /\ Rows(TableOf(key)) \subseteq Rows("universities_df")

\* the second university has its University, Program, Lab and Scholarship
\* rows
C15_Witness ==
    /\ uPhase = "next"
    /\ uCount = 2
    /\ \A name \in {"universities_df", "programs_df", "labs_df", "scholarships_df"} :
           RowsOf(name, 2) # {}

\* C16: every task that exists belongs to the university being processed;
\* a task is queued or running only inside the executor block of that
\* university; accumulation starts when all six tasks have ended and were
\* handled. This also holds after a task failed.
C16_UniversitiesAreSequential ==
    /\ \A t \in tasks : t.u = uCount
    /\ Unfinished(tasks) # {} => uPhase \in {"tasks", "aborting"}
    /\ uPhase = "accumulating" => (handled = TaskKeySet /\ Unfinished(tasks) = {})

\* the first university was ended by the failure of a task, after its
\* University row, and tasks of the second university are running
C16_Witness ==
    /\ uCount = 2
    /\ uPhase = "tasks"
    /\ failures = 1
    /\ RowsOf("universities_df", 1) # {}
    /\ RowsOf("outcomes_df", 1) = {}
    /\ \E t \in tasks : t.state = "running"

\* C20: every university that was processed has exactly one row in each of
\* the University, Admission, CostOfLiving and Outcome tables.
C20_OneRowInEachSingleRecordTable ==
    uPhase = "next" =>
        \A u \in 1..uCount :
            \A name \in {"universities_df", "admissions_df", "costs_df", "outcomes_df"} :
                Cardinality(RowsOf(name, u)) = 1

\* C21: no extractor raises past its own boundary, the University extractor
\* included: whatever its pages hold, it returns its record, so every
\* university whose processing has started has its University row.
C21_UniversityExtractorAlwaysReturns ==
    \A u \in 1..uCount : RowsOf("universities_df", u) # {}

(***************************************************************************)
(* Properties of the reference log.                                        *)
(***************************************************************************)
IsPrefix(s, t) == Len(s) <= Len(t) /\ SubSeq(t, 1, Len(s)) = s

\* the lines of a file, each with its "\n"; what follows the last "\n", if
\* anything, is the last element
RECURSIVE SplitLines(_)
SplitLines(s) ==
    IF s = <<>> THEN <<>>
    ELSE IF \E k \in 1..Len(s) : s[k] = "\n"
    THEN LET k == CHOOSE k \in 1..Len(s) :
                     s[k] = "\n" /\ \A j \in 1..(k - 1) : s[j] # "\n"
         IN <<SubSeq(s, 1, k)>> \o SplitLines(SubSeq(s, k + 1, Len(s)))
    ELSE <<s>>

LinesOf(s) == {SplitLines(s)[i] : i \in 1..Len(SplitLines(s))}

\* the lines log_reference can write, and the two lines of the header
EntryLines ==
    {LogLine(EntityName(t), <<"p">>, UrlOfCall(n)) : t \in LogThreads, n \in 1..MaxLogCalls}

HeaderLines == LinesOf(Header)

\* C22: log_reference calls that run concurrently write whole lines of the
\* form "- [name – purpose] url": the file never holds a piece of a line or
\* two lines run together, and the line of every call that returned is in
\* the file, also the line of a call that found the file missing.
C22_ConcurrentAppendsKeepWholeLines ==
    /\ LinesOf(refLog) \subseteq (EntryLines \cup HeaderLines)
    /\ logged \subseteq LinesOf(refLog)

\* C23: the reference log only grows: the header is written when the crawl
\* starts, every later write adds one line at the end, and no operation,
\* the start of a run that resumes from a checkpoint included, removes or
\* changes a line. (Steps taken while two calls are under way are C22's.)
C23_ReferenceLogIsAppendOnly ==
    [][Cardinality({t \in LogThreads : logWriters[t].st # "idle"}) <= 1 =>
          /\ IsPrefix(refLog, refLog')
          /\ refLog' # refLog =>
                \/ refLog = <<>> /\ refLog' = Header
                \/ \E l \in EntryLines : refLog' = refLog \o l]_vars

(***************************************************************************)
(* Properties of the cache file under concurrent tasks.                    *)
(***************************************************************************)
\* C30: with tasks that save to and read one cache key at the same time, a
\* get_from_cache returns nothing or a whole document that a save_to_cache
\* was called with, never a piece of one or a mix of two, and never an empty
\* one. (Neither function lets an exception out: lines 116 and 141.)
C30_ConcurrentCacheAccessGivesWholeDocuments ==
    (cgot.done /\ cgot.hit) =>
        /\ cgot.html \in csaved
        /\ cgot.html # <<>>

(***************************************************************************)
(* Properties of the list extractors.                                      *)
(***************************************************************************)
\* every fetch of the invocation failed
AllFetchesFailed ==
    CASE ex.kind = "programs" ->
             /\ \A t \in DOMAIN ProgramTypes : \A k \in 1..MaxKeywords : ex.in.links[t][k] = 0
             /\ ex.in.specific = {}
             /\ ~ex.in.search
      [] ex.kind = "labs" ->
             \A a \in DOMAIN ResearchAreas : \A k \in 1..MaxKeywords : ex.in.links[a][k] = 0
      [] ex.kind = "scholarships" -> ex.in.items = 0
      [] OTHER -> FALSE

\* a Notes field that says the record was made up
TaggedAsFallback(notes) == notes \in {APPROXIMATE, GENERATED}

\* C18: when every candidate URL fails, the extractor returns a list that
\* is not empty and in which every record is tagged in its Notes field as
\* approximate, to be verified.
C18_AllFailureYieldsTaggedFallbackRecords ==
    AllFetchesFailed =>
        /\ Len(ex.out) > 0
        /\ \A i \in DOMAIN ex.out : TaggedAsFallback(ex.out[i].Notes)

\* C19: one invocation returns at most 3 programs per program type, at most
\* 2 labs per research area and at most 5 scholarships.
C19_RecordsPerCategoryAreCapped ==
    /\ ex.kind = "programs" =>
           \A t \in DOMAIN ProgramTypes : CountOf(ex.out, ProgramTypes[t]) <= PROGRAMS_PER_TYPE
    /\ ex.kind = "labs" =>
           \A a \in DOMAIN ResearchAreas : CountOf(ex.out, ResearchAreas[a]) <= max_labs_per_area
    /\ ex.kind = "scholarships" => Len(ex.out) <= SCHOLARSHIPS_LIMIT

\* the normalized URLs of a list of pages, as the extractor normalizes them
NormalizedBy(kind, urls) ==
    [i \in 1..Len(urls) |->
        IF kind = "program_pages" THEN normalize_url(urls[i]) ELSE path_lower(urls[i])]

NoTwoAlike(q) == \A i, j \in 1..Len(q) : q[i] = q[j] => i = j

\* C27: within one invocation of a list extractor no two pages fetched have
\* the same normalized URL, and no two records returned come from the same
\* normalized URL.
C27_OnePageAndOneRecordPerNormalizedUrl ==
    ex.kind \in {"program_pages", "lab_pages", "scholarship_pages"} =>
        /\ NoTwoAlike(NormalizedBy(ex.kind, ex.out.fetched))
        /\ NoTwoAlike(NormalizedBy(ex.kind, ex.out.records))

====
